---- MODULE Spec2Model ----
(***************************************************************************)
(* A model of the deck-optim simulation engine: mana arithmetic, the       *)
(* payment solver, the metrics aggregator with its parallel reduction, and *)
(* the trial driver over the game state.                                   *)
(***************************************************************************)
EXTENDS Integers, Sequences, FiniteSets, Bags, TLC

VARIABLES
    \* ---- payment enumeration (payment_solver.rs) ----
    available,          \* the pool handed to the enumerators
    cost,               \* the ManaCost handed to payment_methods_for
    generic_solutions,  \* Option<Vec<ManaPool>>: result of payment_methods_for_generic
    solutions,          \* Option<Vec<ManaPool>>: result of payment_methods_for
    \* ---- autotap (payment_solver.rs) ----
    mana_sources,       \* Vec<ManaSource> handed to autotap_pay_for
    tap_cost,           \* the ManaCost handed to autotap_pay_for
    tap_result,         \* <<>> before the call, then <<Option<(PaymentSolution, Vec<ManaSource>)>>>
    \* ---- metrics (metrics.rs) and the parallel reduction (trial.rs) ----
    ma, mb, mc,         \* three MetricsData values
    joined,             \* Option<MetricsData>: the result of MetricsData::join(ma, mb)
    num_trials,         \* props.num_trials
    trials_run,         \* how many of the trials have returned their metrics
    returned,           \* bag of the per-trial metrics returned so far
    parts,              \* bag of the partial aggregates the reducer holds
    identities,         \* how many times the reducer has called its identity closure
    \* ---- one trial (trial.rs, game/state.rs, strategies.rs) ----
    state,              \* Trial.state: the State struct
    max_turn,           \* Trial.props.max_turn
    strategy,           \* which Strategy runs: "StrategyImpl" or "any" implementation
    pc,                 \* the position of Trial::run
    events,             \* the watcher callbacks made so far, in order
    plays,              \* the rest of the Vec StrategyImpl::card_plays returned
    plays_left,         \* how many plays are left in the Vec of an "any" strategy
    plays_made,         \* how many plays an "any" strategy has returned in this trial
    pending,            \* Option<CardPlay>: reported to the watcher, not yet played
    metrics_trials_seen,\* Trial.metrics.trials_seen
    deck_total,         \* the number of cards of the deck the trial was built from
    main_size,          \* the number of cards of its main deck
    loss_turn,          \* the turn on which game_loss was set, 0 before
    \* ---- one call of a pure function (mana, piles, deck list) ----
    call,               \* the function that was called last, "idle" before any call
    args,               \* the arguments the calls are made on
    result,             \* what the last call returned
    \* ---- two runs of one trial side by side ----
    twin,               \* the variables of the run that is not live
    synced,             \* the variables both runs had before the current step
    whose,              \* which run steps next
    rng_out,            \* Option: the outcome the RNG yields for the current step
    \* ---- the process-wide card registry (lib.rs) ----
    NAME_TO_CARD,       \* OnceCell<HashMap<String, Card>>
    CARD_COLLECTION,    \* OnceCell<CardCollection>
    threads,            \* the position and the locals of every thread
    observed            \* what the lookups made after a successful init returned

payVars == <<available, cost, generic_solutions, solutions>>
tapVars == <<mana_sources, tap_cost, tap_result>>

joinVars == <<ma, mb, mc, joined>>
reduceVars == <<num_trials, trials_run, returned, parts, identities>>

trialVars == <<state, max_turn, strategy, pc, events, plays, plays_left, plays_made,
               pending, metrics_trials_seen, deck_total, main_size, loss_turn>>

callVars == <<call, args, result>>
twinVars == <<twin, synced, whose, rng_out>>
regVars == <<NAME_TO_CARD, CARD_COLLECTION, threads, observed>>

\* the variables of the specifications of pure functions, of the twin runs and
\* of the registry
restVars == <<callVars, twinVars, regVars>>

vars == <<payVars, tapVars, joinVars, reduceVars, trialVars, restVars>>

\* what the actions of one specification leave alone
notPay == <<tapVars, joinVars, reduceVars, trialVars, restVars>>
notTap == <<payVars, joinVars, reduceVars, trialVars, restVars>>
notJoin == <<payVars, tapVars, reduceVars, trialVars, restVars>>
notReduce == <<payVars, tapVars, joinVars, trialVars, restVars>>
notTrial == <<payVars, tapVars, joinVars, reduceVars, restVars>>
notCall == <<payVars, tapVars, joinVars, reduceVars, trialVars, twinVars, regVars>>
notTwin == <<payVars, tapVars, joinVars, reduceVars, callVars, regVars>>
notReg == <<payVars, tapVars, joinVars, reduceVars, trialVars, callVars, twinVars>>

(***************************************************************************)
(* Bounds of the model                                                     *)
(***************************************************************************)
MaxMana == 3        \* largest mana value of an enumerated pool
MaxColored == 2     \* largest number of coloured pips of an enumerated cost
MaxGeneric == 3     \* largest generic part of an enumerated cost
MaxSources == 3     \* longest list of mana sources handed to autotap_pay_for
MaxCount == 1       \* largest value a watcher records under a key
MaxJoined == 3      \* largest trials_seen of an accumulated MetricsData operand
MaxTrials == 3      \* largest props.num_trials
MaxIdentities == 1  \* how often the reducer may call its identity closure
MaxLands == 8       \* most copies of the land in a main deck
MaxSpells == 1      \* most copies of the instant in a main deck
MaxTurn == 2        \* largest props.max_turn, apart from main deck size + 1
MaxPlays == 1       \* most plays an "any" strategy returns in a trial

(***************************************************************************)
(* Option<T>: None is the empty sequence, Some(x) the one-element sequence *)
(***************************************************************************)
None == <<>>
Some(x) == <<x>>
IsSome(o) == Len(o) = 1
Unwrap(o) == o[1]

(***************************************************************************)
(* game/mana/type.rs, game/mana/pool.rs, game/mana/cost.rs                 *)
(***************************************************************************)
\* ManaType::all(): the six mana types in declaration order
ManaTypeAll == <<"White", "Blue", "Black", "Red", "Green", "Colorless">>

ManaType == {ManaTypeAll[i] : i \in 1..Len(ManaTypeAll)}

\* ManaPool::empty()
ManaPoolEmpty ==
    [white |-> 0, blue |-> 0, black |-> 0, red |-> 0, green |-> 0, colorless |-> 0]

\* impl Index<ManaType> for ManaPool
Index(p, t) ==
    CASE t = "White" -> p.white
      [] t = "Blue" -> p.blue
      [] t = "Black" -> p.black
      [] t = "Red" -> p.red
      [] t = "Green" -> p.green
      [] t = "Colorless" -> p.colorless

\* impl IndexMut<ManaType> for ManaPool, as an update: p[t] = v
IndexMut(p, t, v) ==
    CASE t = "White" -> [p EXCEPT !.white = v]
      [] t = "Blue" -> [p EXCEPT !.blue = v]
      [] t = "Black" -> [p EXCEPT !.black = v]
      [] t = "Red" -> [p EXCEPT !.red = v]
      [] t = "Green" -> [p EXCEPT !.green = v]
      [] t = "Colorless" -> [p EXCEPT !.colorless = v]

\* ManaPool::mana_value
mana_value(p) == p.white + p.blue + p.black + p.red + p.green + p.colorless

\* ManaCost::mana_value
cost_mana_value(c) == mana_value(c.colors) + c.generic

\* ManaPool::remove_pip (only called on a type the pool holds)
remove_pip(p, mt) == IndexMut(p, mt, Index(p, mt) - 1)

\* ManaPool::add_pip
add_pip(p, mt) == IndexMut(p, mt, Index(p, mt) + 1)

\* ManaPool::mana_types: the types present, in declaration order
mana_types(p) == SelectSeq(ManaTypeAll, LAMBDA mt : Index(p, mt) > 0)

\* impl Add for ManaPool
PoolAdd(p, q) ==
    [white |-> p.white + q.white, blue |-> p.blue + q.blue,
     black |-> p.black + q.black, red |-> p.red + q.red,
     green |-> p.green + q.green, colorless |-> p.colorless + q.colorless]

\* faulty variant: the subtraction saturates at 0
PoolSub_saturating(p, q) ==
    Some([white |-> IF p.white < q.white THEN 0 ELSE p.white - q.white,
          blue |-> IF p.blue < q.blue THEN 0 ELSE p.blue - q.blue,
          black |-> IF p.black < q.black THEN 0 ELSE p.black - q.black,
          red |-> IF p.red < q.red THEN 0 ELSE p.red - q.red,
          green |-> IF p.green < q.green THEN 0 ELSE p.green - q.green,
          colorless |-> IF p.colorless < q.colorless THEN 0
                        ELSE p.colorless - q.colorless])

\* impl Sub for ManaPool: checked_sub on every component, None on underflow
PoolSub(p, q) ==
    IF \/ p.white < q.white \/ p.blue < q.blue \/ p.black < q.black
       \/ p.red < q.red \/ p.green < q.green \/ p.colorless < q.colorless
    THEN None
    ELSE Some([white |-> p.white - q.white, blue |-> p.blue - q.blue,
               black |-> p.black - q.black, red |-> p.red - q.red,
               green |-> p.green - q.green,
               colorless |-> p.colorless - q.colorless])

\* #[derive(PartialOrd, Ord)] on ManaPool: lexicographic in field order
PoolLess(p, q) ==
    LET a == <<p.white, p.blue, p.black, p.red, p.green, p.colorless>>
        b == <<q.white, q.blue, q.black, q.red, q.green, q.colorless>>
    IN \E i \in 1..6 : a[i] < b[i] /\ \A j \in 1..(i - 1) : a[j] = b[j]

\* componentwise order on pools (used to state the claims)
PoolLeq(p, q) ==
    /\ p.white <= q.white /\ p.blue <= q.blue /\ p.black <= q.black
    /\ p.red <= q.red /\ p.green <= q.green /\ p.colorless <= q.colorless

(***************************************************************************)
(* Vec helpers                                                             *)
(***************************************************************************)
RECURSIVE InsertSorted(_, _)
InsertSorted(s, x) ==
    IF s = <<>> THEN <<x>>
    ELSE IF PoolLess(x, Head(s)) THEN <<x>> \o s
    ELSE <<Head(s)>> \o InsertSorted(Tail(s), x)

\* Vec::sort on pools (ascending in the derived order)
RECURSIVE Sort(_)
Sort(s) == IF s = <<>> THEN <<>> ELSE InsertSorted(Sort(Tail(s)), Head(s))

\* Vec::dedup: drops consecutive repeats
RECURSIVE Dedup(_)
Dedup(s) ==
    IF Len(s) <= 1 THEN s
    ELSE IF s[1] = s[2] THEN Dedup(Tail(s))
    ELSE <<s[1]>> \o Dedup(Tail(s))

MapSeq(s, F(_)) == [i \in 1..Len(s) |-> F(s[i])]

SeqToSet(s) == {s[i] : i \in 1..Len(s)}

NoDuplicates(s) == \A i, j \in 1..Len(s) : s[i] = s[j] => i = j

(***************************************************************************)
(* strategies/payment_solver.rs: enumeration of payments                   *)
(***************************************************************************)
RECURSIVE payment_methods_for_generic(_, _)
RECURSIVE GenericOver(_, _, _)
\* the body of the `for mt in available.mana_types()` loop, over types
GenericOver(types, avail, generic) ==
    IF types = <<>> THEN <<>>
    ELSE LET mt == Head(types)
             next == remove_pip(avail, mt)
             next_solutions ==
                 MapSeq(payment_methods_for_generic(next, generic - 1),
                        LAMBDA soln : add_pip(soln, mt))
         IN next_solutions \o GenericOver(Tail(types), avail, generic)

\* faulty variant: the sorted list is returned without dedup
payment_methods_for_generic_no_dedup(avail, generic) ==
    IF generic = 0 THEN <<ManaPoolEmpty>>
    ELSE Sort(GenericOver(mana_types(avail), avail, generic))

payment_methods_for_generic(avail, generic) ==
    IF generic = 0 THEN <<ManaPoolEmpty>>
    ELSE Dedup(Sort(GenericOver(mana_types(avail), avail, generic)))

\* faulty variant: the coloured part is not added back to the generic payment
payment_methods_for_colors_dropped(avail, c) ==
    LET remaining == PoolSub(avail, c.colors)
    IN IF ~IsSome(remaining) THEN <<>>
       ELSE payment_methods_for_generic(Unwrap(remaining), c.generic)

payment_methods_for(avail, c) ==
    LET remaining == PoolSub(avail, c.colors)
    IN IF ~IsSome(remaining) THEN <<>>
       ELSE MapSeq(payment_methods_for_generic(Unwrap(remaining), c.generic),
                   LAMBDA payment : PoolAdd(payment, c.colors))

(***************************************************************************)
(* strategies/payment_solver.rs: PaymentSolution and the autotap search    *)
(***************************************************************************)
\* PaymentSolution::new
PaymentSolutionNew == [cards_to_tap |-> <<>>, mana_used |-> ManaPoolEmpty]

\* faulty variant: the tapped card is not recorded
with_payment_not_recorded(soln, card, mana) ==
    [cards_to_tap |-> soln.cards_to_tap,
     mana_used |-> PoolAdd(soln.mana_used, mana)]

\* PaymentSolution::add / with_payment
with_payment(soln, card, mana) ==
    [cards_to_tap |-> Append(soln.cards_to_tap, <<card, mana>>),
     mana_used |-> PoolAdd(soln.mana_used, mana)]

\* the `retain` pass: single-mode sources are tapped at once, sources with
\* no mode are dropped, the others are kept; returns the pair
\* <<partial_soln, retained sources>>
RECURSIVE ForcedTapPass(_, _, _)
ForcedTapPass(sources, partial_soln, kept) ==
    IF sources = <<>> THEN <<partial_soln, kept>>
    ELSE LET src == Head(sources)
         IN CASE Len(src.produces) = 0 ->
                    ForcedTapPass(Tail(sources), partial_soln, kept)
              [] Len(src.produces) = 1 ->
                    ForcedTapPass(Tail(sources),
                                  with_payment(partial_soln, src.card, src.produces[1]),
                                  kept)
              [] OTHER ->
                    ForcedTapPass(Tail(sources), partial_soln, Append(kept, src))

RECURSIVE _autotap_recursive(_, _, _)
RECURSIVE TryModes(_, _, _, _, _)
\* faulty variant: only the first tap-mode of a source is tried
TryModesFirstOnly(i, new_source, partial_soln, rest, c) ==
    IF i > 1 \/ i > Len(new_source.produces) THEN None
    ELSE _autotap_recursive(
             with_payment(partial_soln, new_source.card, new_source.produces[i]),
             rest, c)

\* the `for payment in new_source.produces.iter()` loop from mode i on
TryModes(i, new_source, partial_soln, rest, c) ==
    IF i > Len(new_source.produces) THEN None
    ELSE LET next == with_payment(partial_soln, new_source.card, new_source.produces[i])
             solution == _autotap_recursive(next, rest, c)
         IN IF IsSome(solution) THEN solution
            ELSE TryModes(i + 1, new_source, partial_soln, rest, c)

_autotap_recursive(partial_soln, avail_sources, c) ==
    IF Len(payment_methods_for(partial_soln.mana_used, c)) > 0
    THEN Some([solution |-> partial_soln, untapped |-> avail_sources])
    ELSE IF avail_sources = <<>> THEN None
    ELSE LET new_source == avail_sources[Len(avail_sources)]
             rest == SubSeq(avail_sources, 1, Len(avail_sources) - 1)
         IN TryModes(1, new_source, partial_soln, rest, c)

autotap_pay_for(sources, c) ==
    LET pass == ForcedTapPass(sources, PaymentSolutionNew, <<>>)
    IN _autotap_recursive(pass[1], pass[2], c)

(***************************************************************************)
(* metrics.rs: Metrics and MetricsData                                     *)
(***************************************************************************)
Min(x, y) == IF x <= y THEN x ELSE y
Max(x, y) == IF x >= y THEN x ELSE y

\* the metrics keys the watchers of the model record under
Keys == {"lands", "plays"}

\* impl Default for Metrics
MetricsDefault == [total |-> 0, min |-> 0, max |-> 0, trials_seen |-> 1, count |-> 0]

\* Metrics::update_add
update_add(m, value) ==
    [m EXCEPT !.total = @ + value, !.min = @ + value, !.max = @ + value,
              !.count = @ + 1]

\* Metrics::update_set
update_set(m, value) ==
    [m EXCEPT !.total = value, !.min = value, !.max = value, !.count = @ + 1]

\* faulty variant: the minimum of the receiver is kept
merge_in_keeps_min(self, other) ==
    [total |-> self.total + other.total,
     min |-> self.min,
     max |-> Max(self.max, other.max),
     trials_seen |-> self.trials_seen + other.trials_seen,
     count |-> self.count + other.count]

\* faulty variant: the totals are not summed
merge_in_keeps_total(self, other) ==
    [total |-> Max(self.total, other.total),
     min |-> Min(self.min, other.min),
     max |-> Max(self.max, other.max),
     trials_seen |-> self.trials_seen + other.trials_seen,
     count |-> self.count + other.count]

\* faulty variant: the trials of the other operand are not counted
merge_in_keeps_trials_seen(self, other) ==
    [total |-> self.total + other.total,
     min |-> Min(self.min, other.min),
     max |-> Max(self.max, other.max),
     trials_seen |-> self.trials_seen,
     count |-> self.count + other.count]

\* Metrics::merge_in
merge_in(self, other) ==
    [total |-> self.total + other.total,
     min |-> Min(self.min, other.min),
     max |-> Max(self.max, other.max),
     trials_seen |-> self.trials_seen + other.trials_seen,
     count |-> self.count + other.count]

\* MetricsData::empty; the HashMap is a function from the keys to Option<Metrics>
MetricsDataEmpty == [trials_seen |-> 0, metrics |-> [k \in Keys |-> None]]

\* MetricsData::add_count
add_count(d, key, count) ==
    [d EXCEPT !.metrics[key] =
        Some(update_add(IF IsSome(@) THEN Unwrap(@) ELSE MetricsDefault, count))]

\* faulty variant: the value is written over an occupied entry
set_overwrites(d, key, value) ==
    [d EXCEPT !.metrics[key] =
        Some(update_set(IF IsSome(@) THEN Unwrap(@) ELSE MetricsDefault, value))]

\* MetricsData::set
set(d, key, value) ==
    IF IsSome(d.metrics[key]) THEN d
    ELSE [d EXCEPT !.metrics[key] = Some(update_set(MetricsDefault, value))]

\* faulty variant: the trials of the right operand are not counted
join_drops_trials(left, right) ==
    [trials_seen |-> left.trials_seen,
     metrics |-> [k \in Keys |->
        IF ~IsSome(right.metrics[k]) THEN left.metrics[k]
        ELSE IF IsSome(left.metrics[k])
             THEN Some(merge_in(Unwrap(left.metrics[k]), Unwrap(right.metrics[k])))
             ELSE right.metrics[k]]]

\* MetricsData::join
join(left, right) ==
    [trials_seen |-> left.trials_seen + right.trials_seen,
     metrics |-> [k \in Keys |->
        IF ~IsSome(right.metrics[k]) THEN left.metrics[k]
        ELSE IF IsSome(left.metrics[k])
             THEN Some(merge_in(Unwrap(left.metrics[k]), Unwrap(right.metrics[k])))
             ELSE right.metrics[k]]]

\* MetricsData::get
get(d, key) == IF IsSome(d.metrics[key]) THEN Unwrap(d.metrics[key]) ELSE MetricsDefault

\* MetricsData::total / min / max
total(d, key) == get(d, key).total
min(d, key) == get(d, key).min
max(d, key) == get(d, key).max

\* Metrics::average: total as f32 / trials_seen as f32, kept as the fraction
Metrics_average(m) == [dividend |-> m.total, divisor |-> m.trials_seen]

\* MetricsData::average
average(d, key) == Metrics_average(get(d, key))

\* what Trial::run returns: the watcher's recordings with trials_seen += 1
TrialReturn(metrics) == [metrics EXCEPT !.trials_seen = @ + 1]

(***************************************************************************)
(* Input domains                                                           *)
(***************************************************************************)
PoolsUpTo(n) ==
    {p \in [white : 0..n, blue : 0..n, black : 0..n,
            red : 0..n, green : 0..n, colorless : 0..n] : mana_value(p) <= n}

CostsUpTo(nc, ng) == [colors : PoolsUpTo(nc), generic : 0..ng]

Pip(t) == IndexMut(ManaPoolEmpty, t, 1)

\* tap-mode lists of the sources handed to the solver: a basic land, a dual
\* land, a permanent whose annotation lists no mana, a two-mana rock
SourceProduces ==
    << <<Pip("Green")>>,
       <<Pip("Red"), Pip("Green")>>,
       <<>>,
       <<IndexMut(ManaPoolEmpty, "Colorless", 2)>> >>

SourceCards == 1..Len(SourceProduces)

SeqsUpTo(S, n) == UNION {[1..k -> S] : k \in 0..n}

ManaSourceOf(card) == [card |-> card, produces |-> SourceProduces[card]]

(***************************************************************************)
(* Specification SpecPay: the two enumerators applied to every bounded     *)
(* pool and cost                                                           *)
(***************************************************************************)
PayIdle ==
    /\ available = ManaPoolEmpty
    /\ cost = [colors |-> ManaPoolEmpty, generic |-> 0]
    /\ generic_solutions = None
    /\ solutions = None

TapIdle ==
    /\ mana_sources = <<>>
    /\ tap_cost = [colors |-> ManaPoolEmpty, generic |-> 0]
    /\ tap_result = <<>>

JoinIdle ==
    /\ ma = MetricsDataEmpty /\ mb = MetricsDataEmpty /\ mc = MetricsDataEmpty
    /\ joined = None

ReduceIdle ==
    /\ num_trials = 0 /\ trials_run = 0 /\ identities = 0
    /\ returned = EmptyBag /\ parts = EmptyBag

TrialIdle ==
    /\ state = <<>> /\ max_turn = 0 /\ strategy = "none" /\ pc = "idle"
    /\ events = <<>> /\ plays = <<>> /\ plays_left = 0 /\ plays_made = 0
    /\ pending = None /\ metrics_trials_seen = 0
    /\ deck_total = 0 /\ main_size = 0 /\ loss_turn = 0

CallIdle == call = "idle" /\ args = <<>> /\ result = <<>>

TwinIdle == twin = <<>> /\ synced = <<>> /\ whose = "none" /\ rng_out = None

RegIdle ==
    /\ NAME_TO_CARD = None /\ CARD_COLLECTION = None
    /\ threads = <<>> /\ observed = <<>>

RestIdle == CallIdle /\ TwinIdle /\ RegIdle

InitPay ==
    /\ TapIdle /\ JoinIdle /\ ReduceIdle /\ TrialIdle /\ RestIdle
    /\ available \in PoolsUpTo(MaxMana)
    /\ cost \in CostsUpTo(MaxColored, MaxGeneric)
    /\ generic_solutions = None
    /\ solutions = None

CallPaymentMethodsForGeneric ==
    /\ generic_solutions = None
    /\ generic_solutions' = Some(payment_methods_for_generic(available, cost.generic))
    /\ UNCHANGED <<available, cost, solutions, notPay>>

CallPaymentMethodsFor ==
    /\ solutions = None
    /\ solutions' = Some(payment_methods_for(available, cost))
    /\ UNCHANGED <<available, cost, generic_solutions, notPay>>

NextPay == CallPaymentMethodsForGeneric \/ CallPaymentMethodsFor

SpecPay == InitPay /\ [][NextPay]_vars

(***************************************************************************)
(* Specification SpecTap: autotap_pay_for applied to every bounded list of *)
(* sources and cost                                                        *)
(***************************************************************************)
InitTap ==
    /\ PayIdle /\ JoinIdle /\ ReduceIdle /\ TrialIdle /\ RestIdle
    /\ \E cards \in SeqsUpTo(SourceCards, MaxSources) :
           mana_sources = [i \in 1..Len(cards) |-> ManaSourceOf(cards[i])]
    /\ tap_cost \in CostsUpTo(MaxColored, MaxGeneric)
    /\ tap_result = <<>>

CallAutotapPayFor ==
    /\ tap_result = <<>>
    /\ tap_result' = <<autotap_pay_for(mana_sources, tap_cost)>>
    /\ UNCHANGED <<mana_sources, tap_cost, notTap>>

NextTap == CallAutotapPayFor

SpecTap == InitTap /\ [][NextTap]_vars

(***************************************************************************)
(* Specification SpecJoin: MetricsData::join applied to the metrics the    *)
(* trials return and to the results of earlier joins                       *)
(***************************************************************************)
\* one more recording of a watcher: add_count or set under some key
WatcherStep(S) ==
    S \cup {add_count(d, k, n) : d \in S, k \in Keys, n \in 0..MaxCount}
      \cup {set(d, k, n) : d \in S, k \in Keys, n \in 0..MaxCount}

RECURSIVE WatcherRuns(_)
WatcherRuns(n) == IF n = 0 THEN {MetricsDataEmpty} ELSE WatcherStep(WatcherRuns(n - 1))

\* the metrics a watcher holds at game end, after at most one recording per key
\* or two under the same key
Recordings == WatcherRuns(Cardinality(Keys))

\* the per-trial results
TrialResults == {TrialReturn(r) : r \in Recordings}

InitJoin ==
    /\ PayIdle /\ TapIdle /\ ReduceIdle /\ TrialIdle /\ RestIdle
    /\ ma \in TrialResults
    /\ mb \in TrialResults
    /\ mc \in TrialResults \cup {MetricsDataEmpty}
    /\ joined = None

CallJoin ==
    /\ joined = None
    /\ joined' = Some(join(ma, mb))
    /\ UNCHANGED <<ma, mb, mc, notJoin>>

\* the result of a join becomes an operand of a later join
Accumulate ==
    /\ IsSome(joined)
    /\ Unwrap(joined).trials_seen <= MaxJoined
    /\ \/ ma' = Unwrap(joined) /\ UNCHANGED <<mb, mc>>
       \/ mb' = Unwrap(joined) /\ UNCHANGED <<ma, mc>>
       \/ mc' = Unwrap(joined) /\ UNCHANGED <<ma, mb>>
    /\ joined' = None
    /\ UNCHANGED notJoin

NextJoin == CallJoin \/ Accumulate

SpecJoin == InitJoin /\ [][NextJoin]_vars

(***************************************************************************)
(* Specification SpecReduce: run_trials, the trials in parallel and the    *)
(* reduction of their metrics in any order and grouping                    *)
(***************************************************************************)
InitReduce ==
    /\ PayIdle /\ TapIdle /\ JoinIdle /\ TrialIdle /\ RestIdle
    /\ num_trials \in 0..MaxTrials
    /\ trials_run = 0
    /\ identities = 0
    /\ returned = EmptyBag
    /\ parts = EmptyBag

\* the metrics of a watcher that records each key at most once in a trial
OnceRecordings == {r \in Recordings : \A k \in Keys : get(r, k).count <= 1}

\* one trial of the parallel map returns its metrics
RunTrial ==
    /\ trials_run < num_trials
    /\ \E r \in OnceRecordings :
           /\ returned' = returned (+) SetToBag({TrialReturn(r)})
           /\ parts' = parts (+) SetToBag({TrialReturn(r)})
    /\ trials_run' = trials_run + 1
    /\ UNCHANGED <<num_trials, identities, notReduce>>

\* the reducer calls its identity closure
ReduceIdentity ==
    /\ identities < MaxIdentities
    /\ identities' = identities + 1
    /\ parts' = parts (+) SetToBag({MetricsDataEmpty})
    /\ UNCHANGED <<num_trials, trials_run, returned, notReduce>>

\* the reducer combines two of the partial aggregates it holds
ReduceJoin ==
    /\ \E x \in BagToSet(parts) :
       \E y \in BagToSet(parts (-) SetToBag({x})) :
           parts' = ((parts (-) SetToBag({x})) (-) SetToBag({y})) (+) SetToBag({join(x, y)})
    /\ UNCHANGED <<num_trials, trials_run, returned, identities, notReduce>>

NextReduce == RunTrial \/ ReduceIdentity \/ ReduceJoin

SpecReduce == InitReduce /\ [][NextReduce]_vars

(***************************************************************************)
(* The card registry of the model, the piles and the game state            *)
(***************************************************************************)
\* the card archetypes: a basic land, a land that taps for two mana, an
\* instant and a creature
Cards == {"Forest", "Temple", "Growth", "Bear"}

CardData ==
    [Forest |-> [card_type |-> "Land", cost |-> None, produces |-> <<Pip("Green")>>],
     Temple |-> [card_type |-> "Land", cost |-> None,
                 produces |-> <<IndexMut(ManaPoolEmpty, "Green", 2)>>],
     Growth |-> [card_type |-> "Instant",
                 cost |-> Some([colors |-> Pip("Green"), generic |-> 0]),
                 produces |-> <<>>],
     Bear |-> [card_type |-> "Creature",
               cost |-> Some([colors |-> Pip("Green"), generic |-> 1]),
               produces |-> <<>>]]

\* the variants of Zone that State::remove_from_zone matches
Zones == {"CommandZone", "Hand", "Graveyard", "Battlefield", "Library"}

CardPlay(card, zone, payment) == [card |-> card, zone |-> zone, payment |-> payment]

\* the values of type ManaPool
ManaPoolValues ==
    [white : Nat, blue : Nat, black : Nat, red : Nat, green : Nat, colorless : Nat]

\* the values of type CardPlay
CardPlayValues == [card : Cards, zone : Zones, payment : ManaPoolValues]

\* how often a card occurs in a pile
RECURSIVE CountOf(_, _)
CountOf(cards, card) ==
    IF cards = <<>> THEN 0
    ELSE (IF cards[1] = card THEN 1 ELSE 0) + CountOf(Tail(cards), card)

\* a pile without its i-th card
Without(cards, i) == SubSeq(cards, 1, i - 1) \o SubSeq(cards, i + 1, Len(cards))

\* OrderedPile::shuffle, UnorderedPile::to_ordered: every order of the same cards
Shuffles[cards \in Seq(Cards)] ==
    IF cards = <<>> THEN {<<>>}
    ELSE UNION {{<<c>> \o t :
                    t \in Shuffles[Without(cards,
                                           CHOOSE i \in 1..Len(cards) : cards[i] = c)]} :
                c \in SeqToSet(cards)}

\* OrderedPile::draw: Vec::pop, the top card is the last of the Vec
draw(cards) ==
    IF cards = <<>> THEN [card |-> None, rest |-> cards]
    ELSE [card |-> Some(cards[Len(cards)]), rest |-> SubSeq(cards, 1, Len(cards) - 1)]

\* the loop of OrderedPile::draw_n with left iterations to go; it breaks when
\* draw() returns None, that is on the empty pile
draw_n_loop[cards \in Seq(Cards), left \in Nat, hand \in Seq(Cards)] ==
    IF left = 0 \/ cards = <<>> THEN [rest |-> cards, drawn |-> hand]
    ELSE LET popped == draw(cards)
         IN draw_n_loop[popped.rest, left - 1, Append(hand, Unwrap(popped.card))]

\* faulty variant: the cards are handed out in the order of the Vec
draw_n_bottom_first(cards, n) ==
    [rest |-> SubSeq(cards, 1, Len(cards) - Min(n, Len(cards))),
     drawn |-> SubSeq(cards, Len(cards) - Min(n, Len(cards)) + 1, Len(cards))]

\* OrderedPile::draw_n: pops up to n cards, the top (last) card first
draw_n(cards, n) == draw_n_loop[cards, n, <<>>]

\* faulty variant: the cards of the other pile are lost
add_to_top_loses(cards, other_pile) == cards

\* OrderedPile::add_to_top
add_to_top(cards, other_pile) == cards \o other_pile

\* UnorderedPile::remove: whether find() finds the card, the value returned
remove_finds(cards, card) == \E i \in 1..Len(cards) : cards[i] = card

\* faulty variant: every copy of the card is removed
PileRemove_every_copy(cards, card) == SelectSeq(cards, LAMBDA c : c # card)

\* UnorderedPile::remove: the first match is replaced by the last card
PileRemove(cards, card) ==
    IF CountOf(cards, card) = 0 THEN cards
    ELSE LET idx == CHOOSE i \in 1..Len(cards) :
                        cards[i] = card /\ \A j \in 1..(i - 1) : cards[j] # card
             last == Len(cards)
         IN SubSeq([cards EXCEPT ![idx] = cards[last]], 1, last - 1)

HAND_SIZE == 7

\* State::new
StateNew(library, command_zone, draw_on_first_turn) ==
    [library |-> library, command_zone |-> command_zone,
     hand |-> <<>>, permanents |-> <<>>, graveyard |-> <<>>,
     turn |-> 0, draw_on_first_turn |-> draw_on_first_turn,
     num_mulligans_taken |-> 0, game_loss |-> FALSE,
     max_land_drops_per_turn |-> 1,
     turn_state |-> [land_drops_made |-> 0, tapped |-> <<>>]]

\* faulty variant: the mulligans taken are not subtracted
draw_hand_full_size(st) ==
    IF st.num_mulligans_taken >= HAND_SIZE THEN st
    ELSE LET d == draw_n(st.library, HAND_SIZE)
         IN [st EXCEPT !.library = d.rest, !.hand = d.drawn]

\* State::draw_hand
draw_hand(st) ==
    IF st.num_mulligans_taken >= HAND_SIZE THEN st
    ELSE LET d == draw_n(st.library, HAND_SIZE - st.num_mulligans_taken)
         IN [st EXCEPT !.library = d.rest, !.hand = d.drawn]

\* faulty variant: a draw from the empty library is ignored
draw_to_hand_never_loses(st) ==
    IF st.library = <<>> THEN st
    ELSE [st EXCEPT !.library = SubSeq(@, 1, Len(@) - 1),
                    !.hand = Append(@, st.library[Len(st.library)])]

\* State::draw_to_hand
draw_to_hand(st) ==
    IF st.library = <<>> THEN [st EXCEPT !.game_loss = TRUE]
    ELSE [st EXCEPT !.library = SubSeq(@, 1, Len(@) - 1),
                    !.hand = Append(@, st.library[Len(st.library)])]

\* faulty variant: the card is always taken from the hand
remove_from_zone_always_hand(st, card, zone) == [st EXCEPT !.hand = PileRemove(@, card)]

\* State::remove_from_zone, for the zones it supports
remove_from_zone(st, card, zone) ==
    CASE zone = "CommandZone" -> [st EXCEPT !.command_zone = PileRemove(@, card)]
      [] zone = "Hand" -> [st EXCEPT !.hand = PileRemove(@, card)]
      [] zone = "Graveyard" -> [st EXCEPT !.graveyard = PileRemove(@, card)]
      [] zone = "Battlefield" -> [st EXCEPT !.permanents = PileRemove(@, card)]

\* State::play_card, for the zones remove_from_zone supports
play_card(st, card_play) ==
    LET removed == remove_from_zone(st, card_play.card, card_play.zone)
        card_type == CardData[card_play.card].card_type
    IN CASE card_type \in {"Instant", "Sorcery"} ->
                [removed EXCEPT !.graveyard = Append(@, card_play.card)]
         [] card_type = "Land" ->
                [removed EXCEPT !.turn_state.land_drops_made = @ + 1,
                                !.permanents = Append(@, card_play.card)]
         [] OTHER -> [removed EXCEPT !.permanents = Append(@, card_play.card)]

\* State::num_lands_in_hand
num_lands_in_hand(st) ==
    Cardinality({i \in 1..Len(st.hand) : CardData[st.hand[i]].card_type = "Land"})

\* ManaSource::highest_mana_value of the source a card is, 0 for no source
RECURSIVE MaxManaValue(_)
MaxManaValue(produces) ==
    IF produces = <<>> THEN 0
    ELSE Max(mana_value(produces[1]), MaxManaValue(Tail(produces)))

\* State::available_mana
RECURSIVE available_mana(_)
available_mana(permanents) ==
    IF permanents = <<>> THEN 0
    ELSE MaxManaValue(CardData[permanents[1]].produces) + available_mana(Tail(permanents))

\* State::legal_card_plays
legal_card_plays(st) ==
    LET has_cost(card) == IsSome(CardData[card].cost)
        in_hand == SelectSeq(st.hand, has_cost)
    IN [i \in 1..Len(in_hand) |-> CardPlay(in_hand[i], "Hand", ManaPoolEmpty)]
       \o [i \in 1..Len(st.command_zone) |->
               CardPlay(st.command_zone[i], "CommandZone", ManaPoolEmpty)]

(***************************************************************************)
(* strategies.rs: the shipped strategy StrategyImpl                        *)
(***************************************************************************)
\* mulligan_strategies::between_3_and_4_lands
between_3_and_4_lands(st) ==
    IF st.num_mulligans_taken >= 3 THEN FALSE
    ELSE ~(3 <= num_lands_in_hand(st) /\ num_lands_in_hand(st) <= 5)

\* land_drop_strategies::random_land: the lands pick_random_filtered may return
random_land(st) ==
    {st.hand[i] : i \in {j \in 1..Len(st.hand) : CardData[st.hand[j]].card_type = "Land"}}

\* the utility closure of StrategyImpl::card_plays
Utility(card) ==
    IF IsSome(CardData[card].cost) THEN cost_mana_value(Unwrap(CardData[card].cost)) ELSE 0

\* the values of a utility closure, F: Fn(Card) -> u32, as a function
UtilityFns == [Cards -> Nat]

\* legal_plays.sort_by_key(utility_fn): stable, ascending
sort_by_key[legal_plays \in Seq(CardPlayValues), utility_fn \in UtilityFns] ==
    IF legal_plays = <<>> THEN <<>>
    ELSE LET n == Len(legal_plays)
             front == sort_by_key[SubSeq(legal_plays, 1, n - 1), utility_fn]
             x == legal_plays[n]
             above(cp) == utility_fn[cp.card] > utility_fn[x.card]
             notAbove(cp) == ~above(cp)
         IN SelectSeq(front, notAbove) \o <<x>> \o SelectSeq(front, above)

\* faulty variant: the payment is not taken from the available mana
naive_greedy_iteration_keeps_mana(chosen, avail, legal_plays, utility_fn) ==
    LET sorted == sort_by_key[legal_plays, utility_fn]
        candidate == sorted[Len(sorted)]
        rest == SubSeq(sorted, 1, Len(sorted) - 1)
        mana_cost == CardData[candidate.card].cost
        skipped == [plays |-> chosen, available_mana |-> avail, legal_plays |-> rest]
    IN IF ~IsSome(mana_cost) THEN skipped
       ELSE LET payment_options == payment_methods_for(avail, Unwrap(mana_cost))
            IN IF payment_options = <<>> THEN skipped
               ELSE [plays |-> Append(chosen, CardPlay(candidate.card, candidate.zone,
                                                     payment_options[1])),
                     available_mana |-> avail,
                     legal_plays |-> rest]

\* faulty variant: the candidate of least utility is picked
naive_greedy_iteration_picks_least(chosen, avail, legal_plays, utility_fn) ==
    LET sorted == sort_by_key[legal_plays, utility_fn]
        candidate == sorted[1]
        rest == Tail(sorted)
        mana_cost == CardData[candidate.card].cost
        skipped == [plays |-> chosen, available_mana |-> avail, legal_plays |-> rest]
    IN IF ~IsSome(mana_cost) THEN skipped
       ELSE LET payment_options == payment_methods_for(avail, Unwrap(mana_cost))
            IN IF payment_options = <<>> THEN skipped
               ELSE LET payment == payment_options[1]
                        remaining_mana == PoolSub(avail, payment)
                    IN IF ~IsSome(remaining_mana) THEN skipped
                       ELSE [plays |-> Append(chosen, CardPlay(candidate.card, candidate.zone,
                                                             payment)),
                             available_mana |-> Unwrap(remaining_mana),
                             legal_plays |-> rest]

\* one iteration of the loop of naive_greedy on a non-empty legal_plays: sort,
\* pop the candidate, and commit it or continue
naive_greedy_iteration(chosen, avail, legal_plays, utility_fn) ==
    LET sorted == sort_by_key[legal_plays, utility_fn]
        candidate == sorted[Len(sorted)]
        rest == SubSeq(sorted, 1, Len(sorted) - 1)
        mana_cost == CardData[candidate.card].cost
        skipped == [plays |-> chosen, available_mana |-> avail, legal_plays |-> rest]
    IN IF ~IsSome(mana_cost) THEN skipped
       ELSE LET payment_options == payment_methods_for(avail, Unwrap(mana_cost))
            IN IF payment_options = <<>> THEN skipped
               ELSE LET payment == payment_options[1]
                        remaining_mana == PoolSub(avail, payment)
                    IN IF ~IsSome(remaining_mana) THEN skipped
                       ELSE [plays |-> Append(chosen, CardPlay(candidate.card, candidate.zone,
                                                             payment)),
                             available_mana |-> Unwrap(remaining_mana),
                             legal_plays |-> rest]

\* card_play_strategies::naive_greedy: the loop, left when the pop finds
\* legal_plays empty
naive_greedy[chosen \in Seq(CardPlayValues), avail \in ManaPoolValues, legal_plays \in Seq(CardPlayValues), utility_fn \in UtilityFns] ==
    IF legal_plays = <<>> THEN chosen
    ELSE LET next == naive_greedy_iteration(chosen, avail, legal_plays, utility_fn)
         IN naive_greedy[next.plays, next.available_mana, next.legal_plays, utility_fn]

\* the mana StrategyImpl::card_plays hands to naive_greedy: State::available_mana
\* counts it, and every mana source of the registry produces green
available_mana_pool(st) == IndexMut(ManaPoolEmpty, "Green", available_mana(st.permanents))

\* StrategyImpl::card_plays, land_drop being what random_land returned
StrategyImpl_card_plays(st, land_drop) ==
    naive_greedy[
        IF IsSome(land_drop) THEN <<CardPlay(Unwrap(land_drop), "Hand", ManaPoolEmpty)>>
        ELSE <<>>,
        available_mana_pool(st),
        legal_card_plays(st),
        [card \in Cards |-> Utility(card)]]

(***************************************************************************)
(* Specification SpecTrial: Trial::run on every bounded deck, with the     *)
(* shipped strategy or with any implementation of the Strategy trait       *)
(***************************************************************************)
\* n copies of a card
Copies(card, n) == [i \in 1..n |-> card]

InitTrial ==
    /\ PayIdle /\ TapIdle /\ JoinIdle /\ ReduceIdle /\ RestIdle
    /\ strategy \in {"StrategyImpl", "any"}
    \* the decks with an instant or a commander are run with the shipped
    \* strategy only
    /\ \E lands \in 0..MaxLands,
          spells \in IF strategy = "StrategyImpl" THEN 0..MaxSpells ELSE {0},
          command_zone \in IF strategy = "StrategyImpl" THEN {<<>>, <<"Bear">>}
                           ELSE {<<>>},
          draw_on_first_turn \in BOOLEAN :
          \E library \in Shuffles[Copies("Forest", lands) \o Copies("Growth", spells)] :
              /\ state = StateNew(library, command_zone, draw_on_first_turn)
              /\ main_size = lands + spells
              /\ deck_total = lands + spells + Len(command_zone)
    /\ max_turn \in (0..MaxTurn) \cup {main_size + 1}
    /\ pc = "start"
    /\ events = <<>> /\ plays = <<>> /\ plays_left = 0 /\ plays_made = 0
    /\ pending = None /\ metrics_trials_seen = 0 /\ loss_turn = 0

\* trial.rs:68-70: shuffle the library and draw the hand
ShuffleAndDraw ==
    /\ pc = "start"
    /\ \E library \in Shuffles[state.library] :
           state' = draw_hand([state EXCEPT !.library = library])
    /\ pc' = "mulligan"
    /\ UNCHANGED <<max_turn, strategy, events, plays, plays_left, plays_made, pending,
                   metrics_trials_seen, deck_total, main_size, loss_turn, notTrial>>

\* faulty variant: the answer of the shipped strategy is not fixed by the state
mulligan_hand_unstable == BOOLEAN

\* the answers strategies.mulligan_hand(&state) can give
mulligan_hand ==
    IF strategy = "StrategyImpl" THEN {between_3_and_4_lands(state)} ELSE BOOLEAN

\* faulty variant: the mulligan loop never breaks
mulligans_used_up_never(st) == FALSE

\* trial.rs:78-81: the break of the mulligan loop
mulligans_used_up(st) == st.num_mulligans_taken >= 6

\* trial.rs:72-84: one iteration of the mulligan loop
Mulligan ==
    /\ pc = "mulligan"
    /\ TRUE \in mulligan_hand
    /\ \E library \in Shuffles[add_to_top(state.library, state.hand)] :
           state' = draw_hand([state EXCEPT !.library = library, !.hand = <<>>,
                                            !.num_mulligans_taken = @ + 1])
    /\ pc' = IF mulligans_used_up(state') THEN "opening_hand" ELSE "mulligan"
    /\ UNCHANGED <<max_turn, strategy, events, plays, plays_left, plays_made, pending,
                   metrics_trials_seen, deck_total, main_size, loss_turn, notTrial>>

\* trial.rs:72: the strategy keeps the hand
KeepHand ==
    /\ pc = "mulligan"
    /\ FALSE \in mulligan_hand
    /\ pc' = "opening_hand"
    /\ UNCHANGED <<state, max_turn, strategy, events, plays, plays_left, plays_made,
                   pending, metrics_trials_seen, deck_total, main_size, loss_turn,
                   notTrial>>

\* faulty variant: no turn_end is reported
watch_skips_turn_end(seen, event) == IF event = "turn_end" THEN seen ELSE Append(seen, event)

\* a callback of the watcher: watcher.opening_hand, land_drop, card_play,
\* turn_end, game_end
watch(seen, event) == Append(seen, event)

\* trial.rs:86-88
OpeningHand ==
    /\ pc = "opening_hand"
    /\ events' = watch(events, "opening_hand")
    /\ state' = [state EXCEPT !.turn = 1]
    /\ pc' = "loop"
    /\ UNCHANGED <<max_turn, strategy, plays, plays_left, plays_made, pending,
                   metrics_trials_seen, deck_total, main_size, loss_turn, notTrial>>

\* trial.rs:89: the test of the turn loop
turn_loop_test(st, mt) == st.turn <= mt /\ ~st.game_loss

\* trial.rs:89-93: the loop test holds, the turn begins with its draw
BeginTurn ==
    /\ pc = "loop"
    /\ turn_loop_test(state, max_turn)
    /\ state' = IF state.turn > 1 \/ state.draw_on_first_turn
                 THEN draw_to_hand(state) ELSE state
    /\ loss_turn' = IF state'.game_loss THEN state.turn ELSE loss_turn
    /\ pc' = "land_drop"
    /\ UNCHANGED <<max_turn, strategy, events, plays, plays_left, plays_made, pending,
                   metrics_trials_seen, deck_total, main_size, notTrial>>

\* trial.rs:104: strategies.land_drop returns None
LandDropNone ==
    /\ pc = "land_drop"
    /\ pc' = "card_plays"
    /\ UNCHANGED <<state, max_turn, strategy, events, plays, plays_left, plays_made,
                   pending, metrics_trials_seen, deck_total, main_size, loss_turn,
                   notTrial>>

\* the plays an implementation of the Strategy trait may return: a card of the
\* trial's deck from any zone, whether the card is in that zone or not
StrategyPlays ==
    {CardPlay(card, zone, ManaPoolEmpty) :
         card \in SeqToSet(state.library \o state.hand \o state.permanents
                                \o state.graveyard \o state.command_zone),
         zone \in Zones}

\* trial.rs:104-106: a strategy that overrides land_drop returns a land drop,
\* which is reported to the watcher
LandDropSome ==
    /\ pc = "land_drop"
    /\ strategy = "any"
    /\ plays_made < MaxPlays
    /\ \E card_play \in {cp \in StrategyPlays : cp.zone = "Hand"} :
           pending' = Some(card_play)
    /\ plays_made' = plays_made + 1
    /\ events' = watch(events, "land_drop")
    /\ pc' = "land_drop_play"
    /\ UNCHANGED <<state, max_turn, strategy, plays, plays_left, metrics_trials_seen,
                   deck_total, main_size, loss_turn, notTrial>>

\* trial.rs:108-109 and 120-121: hand.remove and play_card of the reported
\* play; State::remove_from_zone panics on Zone::Library (todo!)
ApplyPlay ==
    /\ pc \in {"land_drop_play", "card_play"}
    /\ LET card_play == Unwrap(pending)
           removed == [state EXCEPT !.hand = PileRemove(@, card_play.card)]
       IN IF card_play.zone = "Library"
          THEN state' = removed /\ pc' = "panicked"
          ELSE /\ state' = play_card(removed, card_play)
               /\ pc' = IF pc = "land_drop_play" THEN "card_plays" ELSE "next_play"
    /\ pending' = None
    /\ UNCHANGED <<max_turn, strategy, events, plays, plays_left, plays_made,
                   metrics_trials_seen, deck_total, main_size, loss_turn, notTrial>>

\* the Vecs StrategyImpl::card_plays can return, one per outcome of random_land
card_plays_returned ==
    {StrategyImpl_card_plays(state, land_drop) :
         land_drop \in IF random_land(state) = {} THEN {None}
                       ELSE {Some(c) : c \in random_land(state)}}

\* the lengths of the Vec a strategy other than the shipped one returns
card_plays_lengths == 0..(IF StrategyPlays = {} THEN 0 ELSE MaxPlays - plays_made)

\* trial.rs:112: strategies.card_plays(&state) returns its Vec
CardPlays ==
    /\ pc = "card_plays"
    /\ IF strategy = "StrategyImpl"
       THEN /\ plays' \in card_plays_returned
            /\ UNCHANGED <<plays_left, plays_made>>
       ELSE /\ \E n \in card_plays_lengths :
                   plays_left' = n /\ plays_made' = plays_made + n
            /\ UNCHANGED plays
    /\ pc' = "next_play"
    /\ UNCHANGED <<state, max_turn, strategy, events, pending, metrics_trials_seen,
                   deck_total, main_size, loss_turn, notTrial>>

\* trial.rs:112-114: the next play of the Vec is reported to the watcher
NextPlay ==
    /\ pc = "next_play"
    /\ IF strategy = "StrategyImpl"
       THEN /\ plays # <<>>
            /\ pending' = Some(Head(plays))
            /\ plays' = Tail(plays)
            /\ UNCHANGED plays_left
       ELSE /\ plays_left > 0
            /\ \E card_play \in StrategyPlays : pending' = Some(card_play)
            /\ plays_left' = plays_left - 1
            /\ UNCHANGED plays
    /\ events' = watch(events, "card_play")
    /\ pc' = "card_play"
    /\ UNCHANGED <<state, max_turn, strategy, plays_made, metrics_trials_seen,
                   deck_total, main_size, loss_turn, notTrial>>

\* trial.rs:124-125: the Vec is used up
TurnEnd ==
    /\ pc = "next_play"
    /\ plays = <<>> /\ plays_left = 0
    /\ events' = watch(events, "turn_end")
    /\ state' = [state EXCEPT !.turn = @ + 1]
    /\ pc' = "loop"
    /\ UNCHANGED <<max_turn, strategy, plays, plays_left, plays_made, pending,
                   metrics_trials_seen, deck_total, main_size, loss_turn, notTrial>>

\* trial.rs:89 and 128-131: the loop test fails
GameEnd ==
    /\ pc = "loop"
    /\ ~turn_loop_test(state, max_turn)
    /\ events' = watch(events, "game_end")
    /\ metrics_trials_seen' = metrics_trials_seen + 1
    /\ pc' = "done"
    /\ UNCHANGED <<state, max_turn, strategy, plays, plays_left, plays_made, pending,
                   deck_total, main_size, loss_turn, notTrial>>

NextTrial ==
    \/ ShuffleAndDraw \/ Mulligan \/ KeepHand \/ OpeningHand \/ BeginTurn
    \/ LandDropNone \/ LandDropSome \/ ApplyPlay \/ CardPlays \/ NextPlay
    \/ TurnEnd \/ GameEnd

SpecTrial == InitTrial /\ [][NextTrial]_vars

(***************************************************************************)
(* Properties of the payment solver                                        *)
(***************************************************************************)
\* the pools R with lo <= R <= hi componentwise and mana value v
PoolsBetween(lo, hi, v) ==
    {R \in [white : lo.white..hi.white, blue : lo.blue..hi.blue,
            black : lo.black..hi.black, red : lo.red..hi.red,
            green : lo.green..hi.green,
            colorless : lo.colorless..hi.colorless] : mana_value(R) = v}

\* C2: payment_methods_for(P, c) returns, without duplicates, exactly the
\* pools R with c.colors <= R <= P componentwise and mana_value(R) =
\* mana_value(c); it returns nothing when P lacks a coloured pip of c or
\* when mana_value(P) < mana_value(c).
C2_PaymentMethodsExact ==
    IsSome(solutions) =>
        LET r == Unwrap(solutions)
        IN /\ NoDuplicates(r)
           /\ SeqToSet(r) = PoolsBetween(cost.colors, available, cost_mana_value(cost))
           /\ (~PoolLeq(cost.colors, available) => r = <<>>)
           /\ (mana_value(available) < cost_mana_value(cost) => r = <<>>)

C2_Witness ==
    /\ IsSome(solutions)
    /\ Len(Unwrap(solutions)) >= 2
    /\ mana_value(cost.colors) >= 1
    /\ cost.generic >= 1

\* C3: payment_methods_for_generic(P, k) returns exactly the pools Q <= P
\* with mana_value(Q) = k, each once; for k = 0 the single result is the
\* empty pool, and for k > mana_value(P) the result is empty.
C3_GenericExact ==
    IsSome(generic_solutions) =>
        LET r == Unwrap(generic_solutions)
            k == cost.generic
        IN /\ NoDuplicates(r)
           /\ SeqToSet(r) = PoolsBetween(ManaPoolEmpty, available, k)
           /\ (k = 0 => r = <<ManaPoolEmpty>>)
           /\ (k > mana_value(available) => r = <<>>)

C3_Witness ==
    /\ IsSome(generic_solutions)
    /\ cost.generic = 2
    /\ Len(Unwrap(generic_solutions)) >= 2
    /\ \E t \in ManaType : Index(available, t) >= 2

\* a pool admits a payment for a cost: it covers the coloured pips and its
\* mana value reaches the cost's
AdmitsPayment(pool, c) ==
    PoolLeq(c.colors, pool) /\ mana_value(pool) >= cost_mana_value(c)

\* the pools that the choices of at most one tap-mode per source sum to
ChoiceSums[sources \in Seq([card : SourceCards, produces : Seq(ManaPoolValues)])] ==
    IF sources = <<>> THEN {ManaPoolEmpty}
    ELSE {PoolAdd(mode, others) :
              mode \in {ManaPoolEmpty} \cup SeqToSet(sources[1].produces),
              others \in ChoiceSums[Tail(sources)]}

\* C4: autotap_pay_for returns a solution iff some choice of at most one
\* tap-mode per source sums to a pool that admits a payment for the cost;
\* and the mana_used of a returned solution admits a payment.
C4_AutotapExistence ==
    tap_result # <<>> =>
        LET r == tap_result[1]
        IN /\ IsSome(r) <=>
                  \E pool \in ChoiceSums[mana_sources] :
                      AdmitsPayment(pool, tap_cost)
           /\ IsSome(r) =>
                  Len(payment_methods_for(Unwrap(r).solution.mana_used, tap_cost)) > 0

C4_Witness ==
    /\ tap_result # <<>>
    /\ IsSome(tap_result[1])
    /\ \E i \in 1..Len(tap_result[1][1].solution.cards_to_tap) :
           tap_result[1][1].solution.cards_to_tap[i] = <<2, Pip("Green")>>

(***************************************************************************)
(* Properties of the metrics and of the reduction                          *)
(***************************************************************************)
Recorded(d, k) == IsSome(d.metrics[k])

\* C5: join is commutative and associative and MetricsData::empty() is its
\* identity, the metrics compared by trials_seen and per key by total, min,
\* max, trials_seen and count: the result of join(ma, mb) equals join(mb, ma),
\* joining it with mc equals join(ma, join(mb, mc)), and joining the empty
\* metrics on either side changes nothing.
C5_JoinLaws ==
    IsSome(joined) =>
        LET ab == Unwrap(joined)
        IN /\ ab = join(mb, ma)
           /\ join(ab, mc) = join(ma, join(mb, mc))
           /\ join(ab, MetricsDataEmpty) = ab
           /\ join(MetricsDataEmpty, ab) = ab
           /\ join(ma, MetricsDataEmpty) = ma

\* a join of three different non-empty operands, one of them itself the result
\* of a join, with a key that only some of them record
C5_Witness ==
    /\ IsSome(joined)
    /\ ma # mb /\ mb # mc /\ ma # mc
    /\ ma.trials_seen >= 2 /\ mc.trials_seen >= 1
    /\ Recorded(ma, "lands") /\ ~Recorded(mb, "lands") /\ Recorded(mc, "lands")
    /\ Recorded(ma, "plays") /\ Recorded(mb, "plays")
    /\ min(ma, "plays") # min(mb, "plays")

\* C6 as stated: for every key the getters of c = join(a, b) give
\* total(c) = total(a) + total(b), min(c) = min(min(a), min(b)) and
\* max(c) = max(max(a), max(b)).
C6_GettersAsStated ==
    IsSome(joined) =>
        LET c == Unwrap(joined)
        IN \A k \in Keys :
              /\ total(c, k) = total(ma, k) + total(mb, k)
              /\ min(c, k) = Min(min(ma, k), min(mb, k))
              /\ max(c, k) = Max(max(ma, k), max(mb, k))

\* C6: for every key the getters of c = join(a, b) give
\* total(c) = total(a) + total(b) and max(c) = max(max(a), max(b)); min(c) is
\* the minimum over the operands that record the key (min(min(a), min(b)) when
\* both do, the min of the one that does otherwise, 0 when neither does).
C6_GettersOfJoin ==
    IsSome(joined) =>
        LET c == Unwrap(joined)
        IN \A k \in Keys :
              /\ total(c, k) = total(ma, k) + total(mb, k)
              /\ max(c, k) = Max(max(ma, k), max(mb, k))
              /\ min(c, k) = IF Recorded(ma, k) /\ Recorded(mb, k)
                                THEN Min(min(ma, k), min(mb, k))
                             ELSE IF Recorded(ma, k) THEN min(ma, k)
                             ELSE min(mb, k)

\* a join where one operand records a key with a positive minimum and the
\* other does not record it, and both record another key
C6_Witness ==
    /\ IsSome(joined)
    /\ \E k \in Keys : Recorded(ma, k) /\ ~Recorded(mb, k) /\ min(ma, k) > 0
    /\ \E k \in Keys : /\ Recorded(ma, k) /\ Recorded(mb, k)
                        /\ min(ma, k) < min(mb, k) /\ max(ma, k) < max(mb, k)

\* a bag as a sequence, in some order
RECURSIVE BagToSeq(_)
BagToSeq(b) ==
    IF b = EmptyBag THEN <<>>
    ELSE LET x == CHOOSE x \in BagToSet(b) : TRUE
         IN <<x>> \o BagToSeq(b (-) SetToBag({x}))

RECURSIVE SumOf(_, _)
SumOf(s, field) == IF s = <<>> THEN 0 ELSE s[1][field] + SumOf(Tail(s), field)

RECURSIVE MinOf(_, _)
MinOf(s, field) ==
    IF Len(s) = 1 THEN s[1][field] ELSE Min(s[1][field], MinOf(Tail(s), field))

RECURSIVE MaxOf(_, _)
MaxOf(s, field) ==
    IF Len(s) = 1 THEN s[1][field] ELSE Max(s[1][field], MaxOf(Tail(s), field))

\* the aggregate of a bag of per-trial results, field by field
AggregateOf(results) ==
    LET all == BagToSeq(results)
        With(k) == LET has(d) == Recorded(d, k)
                       ds == SelectSeq(all, has)
                   IN [i \in 1..Len(ds) |-> Unwrap(ds[i].metrics[k])]
    IN [trials_seen |-> SumOf(all, "trials_seen"),
        metrics |-> [k \in Keys |->
            IF With(k) = <<>> THEN None
            ELSE Some([total |-> SumOf(With(k), "total"),
                       min |-> MinOf(With(k), "min"),
                       max |-> MaxOf(With(k), "max"),
                       trials_seen |-> SumOf(With(k), "trials_seen"),
                       count |-> SumOf(With(k), "count")])]]

\* the reduction has combined everything into one aggregate
ReduceDone == trials_run = num_trials /\ BagCardinality(parts) = 1

\* C7: whatever the order and grouping of the joins and however often the
\* empty metrics were inserted, once all trials have returned and one
\* aggregate is left it is the aggregate of the multiset of per-trial results,
\* and its trials_seen is num_trials.
C7_ReductionOrderIndependent ==
    ReduceDone =>
        \A agg \in BagToSet(parts) :
            /\ agg = AggregateOf(returned)
            /\ agg.trials_seen = num_trials

\* three trials with different results and one identity reduced to one
\* aggregate in which the minimum and maximum of a key differ
C7_Witness ==
    /\ ReduceDone
    /\ num_trials = 3
    /\ identities = 1
    /\ Cardinality(BagToSet(returned)) = 3
    /\ \E agg \in BagToSet(parts) :
           /\ Recorded(agg, "lands") /\ min(agg, "lands") < max(agg, "lands")
           /\ Recorded(agg, "plays") /\ get(agg, "plays").trials_seen < 3

(***************************************************************************)
(* Properties of a trial                                                   *)
(***************************************************************************)
\* |library| + |hand| + |permanents| + |graveyard| + |command_zone|
CardsInZones ==
    Len(state.library) + Len(state.hand) + Len(state.permanents)
        + Len(state.graveyard) + Len(state.command_zone)

\* C1 as stated: at every state of a trial run with the shipped strategy the
\* five zones together hold exactly the N cards of the deck the trial was
\* built from.
C1_Conservation ==
    (strategy = "StrategyImpl" /\ pc # "idle") => CardsInZones = deck_total

\* how far the sequence of watcher events has got: "start" before
\* opening_hand, "between" after opening_hand or a turn_end, "plays" after a
\* land_drop or card_play of the running turn, "ended" after game_end, "bad"
\* when the events are out of order; known is the set of events of the order
RECURSIVE EventPhase(_, _)
EventPhase(seen, known) ==
    IF seen = <<>> THEN "start"
    ELSE LET before == EventPhase(SubSeq(seen, 1, Len(seen) - 1), known)
             e == seen[Len(seen)]
         IN CASE e \notin known -> "bad"
              [] before = "start" /\ e = "opening_hand" -> "between"
              [] before = "between" /\ e = "land_drop" -> "plays"
              [] before \in {"between", "plays"} /\ e = "card_play" -> "plays"
              [] before \in {"between", "plays"} /\ e = "turn_end" -> "between"
              [] before = "between" /\ e = "game_end" -> "ended"
              [] OTHER -> "bad"

\* the positions of Trial::run inside the turn loop
InTurn == pc \in {"land_drop", "land_drop_play", "card_plays", "next_play", "card_play"}

\* the events in order, one turn_end per turn played, nothing before the
\* mulligan phase is over, and game_end last in a trial that has returned
EventsInOrder(known) ==
    /\ EventPhase(events, known) # "bad"
    /\ pc \in {"start", "mulligan", "opening_hand"} => events = <<>>
    /\ pc = "loop" =>
           /\ EventPhase(events, known) = "between"
           /\ CountOf(events, "turn_end") = state.turn - 1
    /\ InTurn => CountOf(events, "turn_end") = state.turn - 1
    /\ pc = "done" =>
           /\ EventPhase(events, known) = "ended"
           /\ CountOf(events, "turn_end") = state.turn - 1

ReportedBeforePlayed ==
    /\ (events' # events /\ events'[Len(events')] \in {"land_drop", "card_play"})
           => (state' = state /\ pending = None /\ IsSome(pending'))
    /\ (IsSome(pending) /\ pending' # pending)
           => (events' = events /\ pending' = None
               /\ events[Len(events)] \in {"land_drop", "card_play"})
    /\ (InTurn /\ pending = None /\ pending' = None) => state' = state \/ pc' = "loop"

TrialBounds ==
    /\ state.num_mulligans_taken <= 6
    /\ state.turn <= max_turn + 1
    /\ pc = "done" =>
           /\ \/ state.turn = max_turn + 1
              \/ state.game_loss /\ state.turn = loss_turn + 1
           /\ events[Len(events)] = "game_end"
           /\ metrics_trials_seen = 1
    /\ pc # "done" => metrics_trials_seen = 0 /\ CountOf(events, "game_end") = 0

\* a step of the loops: the counters move by one, an iteration starts only
\* while the loop test holds, and the loop is left at the first test after
\* game_loss was set
LoopSteps ==
    /\ state'.num_mulligans_taken \in
           {state.num_mulligans_taken, state.num_mulligans_taken + 1}
    /\ \/ state'.turn = state.turn
       \/ pc = "opening_hand" /\ state'.turn = 1
       \/ pc = "next_play" /\ pc' = "loop" /\ state'.turn = state.turn + 1
    /\ (pc = "loop" /\ pc' = "land_drop") => (state.turn <= max_turn /\ ~state.game_loss)
    /\ (pc = "loop" /\ state.game_loss) => pc' = "done"
    /\ (pc = "loop" /\ state.turn = max_turn + 1) => pc' = "done"

\* Trial::run can take its next step
CanStep ==
    CASE pc = "start" -> ENABLED ShuffleAndDraw
      [] pc = "mulligan" -> ENABLED (KeepHand \/ Mulligan)
      [] pc = "opening_hand" -> ENABLED OpeningHand
      [] pc = "loop" -> ENABLED (BeginTurn \/ GameEnd)
      [] pc = "land_drop" -> ENABLED (LandDropNone \/ LandDropSome)
      [] pc \in {"land_drop_play", "card_play"} -> ENABLED ApplyPlay
      [] pc = "card_plays" ->
             IF strategy = "StrategyImpl" THEN card_plays_returned # {}
             ELSE card_plays_lengths # {}
      [] pc = "next_play" -> ENABLED (NextPlay \/ TurnEnd)
      [] OTHER -> FALSE

\* a measure of the work Trial::run has left: the mulligans, then the
\* iterations of the turn loop, each of at most StepsPerTurn steps
StepsPerTurn == 2 * (deck_total + MaxPlays) + 10

Rank ==
    LET iterations == max_turn + 1 - state.turn
        in_vec == Len(plays) + plays_left
    IN CASE pc = "start" -> (max_turn + 2) * StepsPerTurn + 8
         [] pc = "mulligan" ->
                (max_turn + 2) * StepsPerTurn + 7 - state.num_mulligans_taken
         [] pc = "opening_hand" -> (max_turn + 2) * StepsPerTurn
         [] pc = "loop" -> iterations * StepsPerTurn + StepsPerTurn - 1
         [] pc = "land_drop" -> iterations * StepsPerTurn + StepsPerTurn - 2
         [] pc = "land_drop_play" -> iterations * StepsPerTurn + StepsPerTurn - 3
         [] pc = "card_plays" -> iterations * StepsPerTurn + StepsPerTurn - 4
         [] pc = "next_play" -> iterations * StepsPerTurn + 2 * in_vec + 1
         [] pc = "card_play" -> iterations * StepsPerTurn + 2 * in_vec + 2
         [] OTHER -> 0

PlaysToTheEnd ==
    /\ main_size < max_turn
    /\ state.draw_on_first_turn
    /\ pc \notin {"start", "mulligan"} /\ state.num_mulligans_taken = 0

\* the game was lost on a turn t <= D + 1, the first whose draw found the
\* library empty
LostByEmptyLibrary ==
    /\ state.game_loss
    /\ 1 <= loss_turn /\ loss_turn <= main_size + 1
    /\ loss_turn = Max(main_size - HAND_SIZE, 0) + 1
    /\ state.library = <<>>

\* game_loss is never reset and no turn starts after it was set
LossIsFinal ==
    /\ state.game_loss => state'.game_loss
    /\ state.game_loss => ~(pc = "loop" /\ pc' = "land_drop")
    /\ state.game_loss => state'.turn <= loss_turn + 1

C12_LandDropLimit ==
    (strategy = "StrategyImpl" /\ pc # "idle") =>
        /\ state.turn_state.land_drops_made <= state.max_land_drops_per_turn
        /\ pc = "loop" => state.turn_state.land_drops_made = 0

(***************************************************************************)
(* Specification SpecTwin: two runs of one trial with the shipped strategy, *)
(* started from the same state and fed the same outcomes of the RNG        *)
(***************************************************************************)
\* the largest main deck of the twin runs
TwinCards == 4

\* OrderedPile::shuffle, with the permutation the RNG samples
shuffle(cards, perm) == [i \in 1..Len(cards) |-> cards[perm[i]]]

\* pick_random_filtered over the lands of the hand, with idx the outcome of
\* rng.gen_range(0..count)
pick_random_filtered(st, idx) ==
    LET lands == SelectSeq(st.hand, LAMBDA c : CardData[c].card_type = "Land")
    IN IF Len(lands) = 0 THEN None ELSE Some(lands[idx + 1])

\* what the RNG of the trial or of the strategy can yield at the position of
\* the live run: a permutation for a shuffle, an index for random_land
RngOutcomes ==
    CASE pc = "start" -> Permutations(1..Len(state.library))
      [] pc = "mulligan" /\ TRUE \in mulligan_hand ->
             Permutations(1..(Len(state.library) + Len(state.hand)))
      [] pc = "card_plays" -> 0..(Max(num_lands_in_hand(state), 1) - 1)
      [] OTHER -> {0}

\* the step of the live run is the one the outcome r of the RNG produces
UsesOutcome(r) ==
    CASE pc = "start" -> state' = draw_hand([state EXCEPT !.library = shuffle(@, r)])
      [] pc = "mulligan" /\ state' # state ->
             state' = draw_hand([state EXCEPT
                                     !.library = shuffle(add_to_top(state.library,
                                                                    state.hand), r),
                                     !.hand = <<>>,
                                     !.num_mulligans_taken = @ + 1])
      [] pc = "card_plays" ->
             plays' = StrategyImpl_card_plays(state, pick_random_filtered(state, r))
      [] OTHER -> TRUE

\* the live run continues from the variables t of a run
Restore(t) ==
    /\ state' = t[1] /\ max_turn' = t[2] /\ strategy' = t[3] /\ pc' = t[4]
    /\ events' = t[5] /\ plays' = t[6] /\ plays_left' = t[7] /\ plays_made' = t[8]
    /\ pending' = t[9] /\ metrics_trials_seen' = t[10] /\ deck_total' = t[11]
    /\ main_size' = t[12] /\ loss_turn' = t[13]

InitTwin ==
    /\ PayIdle /\ TapIdle /\ JoinIdle /\ ReduceIdle /\ CallIdle /\ RegIdle
    /\ strategy = "StrategyImpl"
    /\ \E lands \in 0..TwinCards, spells \in 0..MaxSpells,
          command_zone \in {<<>>, <<"Bear">>}, draw_on_first_turn \in BOOLEAN :
          /\ lands + spells <= TwinCards
          /\ \E library \in Shuffles[Copies("Forest", lands) \o Copies("Growth", spells)] :
                 state = StateNew(library, command_zone, draw_on_first_turn)
          /\ main_size = lands + spells
          /\ deck_total = lands + spells + Len(command_zone)
    /\ max_turn \in 0..MaxTurn
    /\ pc = "start"
    /\ events = <<>> /\ plays = <<>> /\ plays_left = 0 /\ plays_made = 0
    /\ pending = None /\ metrics_trials_seen = 0 /\ loss_turn = 0
    /\ twin = trialVars /\ synced = trialVars /\ whose = "rng" /\ rng_out = None

\* the RNG yields its next outcome, the same for both runs
RngYields ==
    /\ whose = "rng"
    /\ pc \notin {"done", "panicked"}
    /\ \E r \in RngOutcomes : rng_out' = Some(r)
    /\ whose' = "first"
    /\ UNCHANGED <<trialVars, twin, synced, notTwin>>

\* one step of Trial::run in the live run, on the outcome the RNG yielded
TwinRun ==
    /\ whose \in {"first", "second"}
    /\ trialVars = synced
    /\ NextTrial
    /\ UsesOutcome(Unwrap(rng_out))

\* the first run has stepped: the second run becomes the live one
TwinSwap ==
    /\ whose = "first"
    /\ trialVars # synced
    /\ twin' = trialVars
    /\ Restore(synced)
    /\ whose' = "second"
    /\ UNCHANGED <<synced, rng_out, notTwin>>

\* the second run has stepped too
TwinCompare ==
    /\ whose = "second"
    /\ trialVars # synced
    /\ synced' = trialVars
    /\ whose' = "rng"
    /\ rng_out' = None
    /\ UNCHANGED <<trialVars, twin, notTwin>>

NextTwin == RngYields \/ TwinRun \/ TwinSwap \/ TwinCompare

SpecTwin == InitTwin /\ [][NextTwin]_vars

FmtGeneric == 12    \* largest generic part of a formatted cost
FmtPips == 1        \* most pips of one type in a formatted cost or pool

\* Result<T, ManaParseError>
Ok(v) == [ok |-> TRUE, value |-> v]
Err(e) == [ok |-> FALSE, err |-> e]

Digits == <<"0", "1", "2", "3", "4", "5", "6", "7", "8", "9">>

\* [WUBRGC0-9]
Symbols == {"W", "U", "B", "R", "G", "C"} \cup SeqToSet(Digits)

\* faulty variant: the digit 0 is not taken for a digit
is_ascii_digit_without_zero(ch) == ch \in SeqToSet(Tail(Digits))

\* char::is_ascii_digit
is_ascii_digit(ch) == ch \in SeqToSet(Digits)

\* the decimal digits write!(f, "{generic}") prints
to_string[n \in Nat] ==
    IF n < 10 THEN <<Digits[n + 1]>> ELSE to_string[n \div 10] \o <<Digits[(n % 10) + 1]>>

\* the text of one brace token
Token(content) == <<"{">> \o content \o <<"}">>

\* for _ in 0..n { write!(f, "{{X}}") }
WriteTimes[n \in Nat, symbol \in STRING] ==
    IF n = 0 THEN <<>> ELSE Token(<<symbol>>) \o WriteTimes[n - 1, symbol]

\* the pips both Display impls write, in the order W, U, B, R, G, C
WritePips(p) ==
    WriteTimes[p.white, "W"] \o WriteTimes[p.blue, "U"] \o WriteTimes[p.black, "B"]
        \o WriteTimes[p.red, "R"] \o WriteTimes[p.green, "G"]
        \o WriteTimes[p.colorless, "C"]

\* impl Display for ManaCost
ManaCost_fmt(c) ==
    (IF c.generic > 0 THEN Token(to_string[c.generic]) ELSE <<>>)
        \o WritePips(c.colors)
        \o (IF cost_mana_value(c) = 0 THEN Token(<<"0">>) ELSE <<>>)

\* impl Display for ManaPool
ManaPool_fmt(p) ==
    WritePips(p) \o (IF mana_value(p) = 0 THEN Token(<<"0">>) ELSE <<>>)

\* the regexes of ManaCost::try_parse: whether the whole source matches
\* ^(\{[WUBRGC0-9]+\})*$ and, if so, the captures of \{([WUBRGC0-9]+)\}
captures[source \in Seq(STRING)] ==
    IF source = <<>> THEN [is_match |-> TRUE, groups |-> <<>>]
    ELSE IF source[1] # "{" \/ \A i \in 1..Len(source) : source[i] # "}"
    THEN [is_match |-> FALSE, groups |-> <<>>]
    ELSE LET close == CHOOSE i \in 1..Len(source) :
                          source[i] = "}" /\ \A j \in 1..(i - 1) : source[j] # "}"
             content == SubSeq(source, 2, close - 1)
             rest == captures[SubSeq(source, close + 1, Len(source))]
         IN IF content = <<>> \/ \E i \in 1..Len(content) : content[i] \notin Symbols
                \/ ~rest.is_match
            THEN [is_match |-> FALSE, groups |-> <<>>]
            ELSE [is_match |-> TRUE, groups |-> <<content>> \o rest.groups]

\* digits.parse::<u8>(): the number, or an error when it does not fit
parse_u8[digits \in Seq(STRING), acc \in Nat] ==
    IF digits = <<>> THEN Ok(acc)
    ELSE LET next == 10 * acc + (CHOOSE d \in 0..9 : Digits[d + 1] = digits[1])
         IN IF next > 255 THEN Err("FailedToParseGenericCost")
            ELSE parse_u8[Tail(digits), next]

\* a ManaCost under construction
ManaCostAny == [colors : ManaPoolValues, generic : Nat]

\* the loop of ManaCost::try_parse over the captures, mana being the cost
\* accumulated so far
parse_captures[groups \in Seq(Seq(STRING)), mana \in ManaCostAny] ==
    IF groups = <<>> THEN Ok(mana)
    ELSE LET mat == groups[1]
             pip(mt) == parse_captures[Tail(groups),
                                       [mana EXCEPT !.colors = add_pip(@, mt)]]
         IN CASE mat = <<"W">> -> pip("White")
              [] mat = <<"U">> -> pip("Blue")
              [] mat = <<"B">> -> pip("Black")
              [] mat = <<"R">> -> pip("Red")
              [] mat = <<"G">> -> pip("Green")
              [] mat = <<"C">> -> pip("Colorless")
              [] OTHER ->
                  IF \A i \in 1..Len(mat) : is_ascii_digit(mat[i])
                  THEN LET num == parse_u8[mat, 0]
                       IN IF ~num.ok THEN num
                          \* u8 addition: past 255 a debug build panics
                          ELSE IF mana.generic + num.value > 255 THEN Err("overflow")
                          ELSE parse_captures[Tail(groups),
                                              [mana EXCEPT !.generic = @ + num.value]]
                  ELSE Err("InvalidManaType")

\* ManaCost::try_parse
ManaCost_try_parse(source) ==
    IF ~captures[source].is_match THEN Err("DidNotMatchRegex")
    ELSE parse_captures[captures[source].groups,
                        [colors |-> ManaPoolEmpty, generic |-> 0]]

\* ManaPool::try_from(cost)
try_from(c) == IF c.generic > 0 THEN Err("GenericCostInManaPool") ELSE Ok(c.colors)

\* ManaPool::try_parse
ManaPool_try_parse(source) ==
    LET mana_cost == ManaCost_try_parse(source)
    IN IF ~mana_cost.ok THEN mana_cost ELSE try_from(mana_cost.value)

\* the pools and costs that are formatted
FmtPools ==
    [white : 0..FmtPips, blue : 0..FmtPips, black : 0..FmtPips, red : 0..FmtPips,
     green : 0..FmtPips, colorless : 0..FmtPips]

FmtCosts == [colors : FmtPools, generic : 0..FmtGeneric]

\* sources that are parsed as they are: the empty string, "{0}", the inputs of
\* the tests of cost.rs and pool.rs, and malformed ones
FmtSources ==
    {<<>>, Token(<<"0">>), Token(<<"0">>) \o Token(<<"0">>),
     <<"{", "1">>, Token(<<"*", "^", "%", "$">>), Token(<<>>), <<"}", "{">>,
     Token(<<"1", "0">>) \o Token(<<"R">>) \o Token(<<"G">>),
     Token(<<"2">>) \o Token(<<"G">>),
     Token(<<"W">>) \o Token(<<"U">>) \o Token(<<"B">>) \o Token(<<"R">>) \o Token(<<"G">>),
     Token(<<"3">>), Token(<<"0", "0", "7">>), Token(<<"W", "U">>), Token(<<"1", "W">>),
     Token(<<"9", "9", "9", "9", "9", "9">>), Token(<<"2", "5", "5">>),
     Token(<<"2", "5", "6">>), Token(<<"W">>) \o <<" ">>}

InitFmt ==
    /\ PayIdle /\ TapIdle /\ JoinIdle /\ ReduceIdle /\ TrialIdle /\ TwinIdle /\ RegIdle
    /\ call = "idle"
    /\ args \in {[kind |-> "cost", value |-> c, source |-> <<>>] : c \in FmtCosts}
                \cup {[kind |-> "pool", value |-> [colors |-> p, generic |-> 0],
                       source |-> <<>>] : p \in FmtPools}
                \cup {[kind |-> "source", value |-> [colors |-> ManaPoolEmpty, generic |-> 0],
                       source |-> s] : s \in FmtSources}
    /\ result = <<>>

\* format!("{}", cost)
FormatCost ==
    /\ call = "idle" /\ args.kind = "cost"
    /\ call' = "ManaCost::fmt"
    /\ result' = <<ManaCost_fmt(args.value)>>
    /\ UNCHANGED <<args, notCall>>

\* format!("{}", pool): a pool is held as the colors of a cost without generic part
FormatPool ==
    /\ call = "idle" /\ args.kind = "pool"
    /\ call' = "ManaPool::fmt"
    /\ result' = <<ManaPool_fmt(args.value.colors)>>
    /\ UNCHANGED <<args, notCall>>

\* ManaCost::try_parse of the formatted cost, or of a source
ParseCost ==
    /\ \/ call = "ManaCost::fmt"
       \/ call = "idle" /\ args.kind = "source"
    /\ call' = "ManaCost::try_parse"
    /\ LET source == IF call = "idle" THEN args.source ELSE result[1]
       IN result' = <<source, ManaCost_try_parse(source)>>
    /\ UNCHANGED <<args, notCall>>

\* ManaPool::try_parse of the formatted pool, or of a source
ParsePool ==
    /\ \/ call = "ManaPool::fmt"
       \/ call = "idle" /\ args.kind = "source"
    /\ call' = "ManaPool::try_parse"
    /\ LET source == IF call = "idle" THEN args.source ELSE result[1]
       IN result' = <<source, ManaPool_try_parse(source)>>
    /\ UNCHANGED <<args, notCall>>

NextFmt == FormatCost \/ FormatPool \/ ParseCost \/ ParsePool

SpecFmt == InitFmt /\ [][NextFmt]_vars

\* C13: formatting then parsing is the identity on mana costs and on mana
\* pools; the empty cost and the empty pool format as "{0}", and both "{0}"
\* and "" parse to the empty value
C13_RoundTrip ==
    /\ (call = "ManaCost::try_parse" /\ args.kind = "cost") => result[2] = Ok(args.value)
    /\ (call = "ManaPool::try_parse" /\ args.kind = "pool") =>
           result[2] = Ok(args.value.colors)
    /\ (call = "ManaCost::fmt" /\ cost_mana_value(args.value) = 0) =>
           result[1] = <<"{", "0", "}">>
    /\ (call = "ManaPool::fmt" /\ mana_value(args.value.colors) = 0) =>
           result[1] = <<"{", "0", "}">>
    /\ (call = "ManaCost::try_parse" /\ result[1] \in {<<>>, <<"{", "0", "}">>}) =>
           result[2] = Ok([colors |-> ManaPoolEmpty, generic |-> 0])
    /\ (call = "ManaPool::try_parse" /\ result[1] \in {<<>>, <<"{", "0", "}">>}) =>
           result[2] = Ok(ManaPoolEmpty)

\* a cost with a two-digit generic part and pips has been formatted and parsed
C13_Witness ==
    /\ call = "ManaCost::try_parse" /\ args.kind = "cost"
    /\ args.value.generic >= 10 /\ mana_value(args.value.colors) >= 2
    /\ result[1] = ManaCost_fmt(args.value)
    /\ result[2] = Ok(args.value)

(***************************************************************************)
(* Specification SpecArith: + and - on every pair of bounded pools         *)
(***************************************************************************)
ArithMana == 2      \* largest mana value of an operand

InitArith ==
    /\ PayIdle /\ TapIdle /\ JoinIdle /\ ReduceIdle /\ TrialIdle /\ TwinIdle /\ RegIdle
    /\ call = "idle"
    /\ args \in [p : PoolsUpTo(ArithMana), q : PoolsUpTo(ArithMana)]
    /\ result = <<>>

\* p + q and q + p
CallAdd ==
    /\ call = "idle"
    /\ call' = "add"
    /\ result' = <<PoolAdd(args.p, args.q), PoolAdd(args.q, args.p)>>
    /\ UNCHANGED <<args, notCall>>

\* (p + q) - q
CallSubOfSum ==
    /\ call = "add"
    /\ call' = "sub_of_sum"
    /\ result' = <<PoolSub(result[1], args.q)>>
    /\ UNCHANGED <<args, notCall>>

\* p - q
CallSub ==
    /\ call = "idle"
    /\ call' = "sub"
    /\ result' = <<PoolSub(args.p, args.q)>>
    /\ UNCHANGED <<args, notCall>>

NextArith == CallAdd \/ CallSubOfSum \/ CallSub

SpecArith == InitArith /\ [][NextArith]_vars

\* C14: p + q = q + p; (p + q) - q = Some(p); p - q is None exactly when some
\* component of q exceeds the same component of p, and otherwise it is the
\* componentwise difference
C14_PoolArithmetic ==
    /\ call = "add" => result[1] = result[2]
    /\ call = "sub_of_sum" => result[1] = Some(args.p)
    /\ call = "sub" =>
           /\ result[1] = None <=>
                  \E mt \in ManaType : Index(args.q, mt) > Index(args.p, mt)
           /\ result[1] # None =>
                  \A mt \in ManaType :
                      Index(Unwrap(result[1]), mt) = Index(args.p, mt) - Index(args.q, mt)

\* a subtraction that underflows in one component only
C14_Witness ==
    /\ call = "sub" /\ result[1] = None
    /\ args.p.green > args.q.green /\ args.p.red < args.q.red

(***************************************************************************)
(* The partition autotap_pay_for returns                                   *)
(***************************************************************************)
\* how many elements of a sequence satisfy a test
CountIf(s, Test(_)) == Len(SelectSeq(s, Test))

\* the componentwise sum of the pools paired with the cards of cards_to_tap
RECURSIVE SumOfTapped(_)
SumOfTapped(cards_to_tap) ==
    IF cards_to_tap = <<>> THEN ManaPoolEmpty
    ELSE PoolAdd(cards_to_tap[1][2], SumOfTapped(Tail(cards_to_tap)))

\* C15: when autotap_pay_for returns (solution, untapped), every input source
\* with at least one tap-mode appears exactly once, either in
\* solution.cards_to_tap paired with one of its own tap-modes or in untapped;
\* a source with no tap-mode appears in neither; and solution.mana_used is the
\* componentwise sum of the pools in cards_to_tap
C15_AutotapPartition ==
    (tap_result # <<>> /\ IsSome(tap_result[1])) =>
        LET solution == Unwrap(tap_result[1]).solution
            untapped == Unwrap(tap_result[1]).untapped
        IN /\ \A card \in SourceCards :
                  CountIf(solution.cards_to_tap, LAMBDA t : t[1] = card)
                      + CountIf(untapped, LAMBDA s : s.card = card)
                  = IF Len(SourceProduces[card]) = 0 THEN 0
                    ELSE CountIf(mana_sources, LAMBDA s : s.card = card)
           /\ \A i \in 1..Len(solution.cards_to_tap) :
                  solution.cards_to_tap[i][2]
                      \in SeqToSet(SourceProduces[solution.cards_to_tap[i][1]])
           /\ \A i \in 1..Len(untapped) : untapped[i] = ManaSourceOf(untapped[i].card)
           /\ solution.mana_used = SumOfTapped(solution.cards_to_tap)

\* a call that tapped a land, left a dual land untapped and dropped a source
\* without tap-mode
C15_Witness ==
    /\ tap_result # <<>> /\ IsSome(tap_result[1])
    /\ \E i \in 1..Len(mana_sources) : mana_sources[i].produces = <<>>
    /\ Unwrap(tap_result[1]).solution.cards_to_tap # <<>>
    /\ Unwrap(tap_result[1]).untapped # <<>>

(***************************************************************************)
(* The average of a key after the reduction                                *)
(***************************************************************************)
\* the per-trial results, of those returned, that recorded the key
RecordedIn(results, k) == SelectSeq(BagToSeq(results), LAMBDA d : Recorded(d, k))

\* C16: after joining per-trial metrics, the average of a key is its summed
\* total divided by the number of joined trials that recorded the key (a
\* recorded count of 0 included); the trials that never recorded the key count
\* neither in that divisor nor in the key's min
C16_AverageOverRecorded ==
    ReduceDone =>
        \A agg \in BagToSet(parts) : \A k \in Keys :
            LET with_key == RecordedIn(returned, k)
                entries == [i \in 1..Len(with_key) |-> Unwrap(with_key[i].metrics[k])]
            IN with_key # <<>> =>
                   /\ average(agg, k) = [dividend |-> SumOf(entries, "total"),
                                         divisor |-> Len(with_key)]
                   /\ min(agg, k) = MinOf(entries, "min")

\* three trials joined: two recorded the key, one of them the count 0, and one
\* trial never recorded it
C16_Witness ==
    /\ ReduceDone /\ num_trials = 3
    /\ Len(RecordedIn(returned, "lands")) = 2
    /\ \E d \in BagToSet(returned) : Recorded(d, "lands") /\ total(d, "lands") = 0
    /\ \E agg \in BagToSet(parts) :
           average(agg, "lands") = [dividend |-> 1, divisor |-> 2] /\ min(agg, "lands") = 0

(***************************************************************************)
(* Specification SpecPile: UnorderedPile::remove called repeatedly and     *)
(* OrderedPile::draw_n called once, on every bounded pile                  *)
(***************************************************************************)
PileSize == 4       \* most cards of a pile
MaxRemoves == 3     \* most calls of remove on one pile

InitPile ==
    /\ PayIdle /\ TapIdle /\ JoinIdle /\ ReduceIdle /\ TrialIdle /\ TwinIdle /\ RegIdle
    /\ call = "idle"
    /\ \E pile \in SeqsUpTo(Cards, PileSize) :
           /\ \/ \E card \in Cards : args = [fn |-> "remove", pile |-> pile, card |-> card, n |-> 0]
              \/ \E n \in 0..(PileSize + 1) :
                     args = [fn |-> "draw_n", pile |-> pile, card |-> "Forest", n |-> n]
           /\ result = [before |-> pile, cards |-> pile, returned |-> <<>>, drawn |-> <<>>]

\* pile.remove(card)
CallRemove ==
    /\ args.fn = "remove"
    /\ Len(result.returned) < MaxRemoves
    /\ call' = "remove"
    /\ result' = [before |-> result.cards,
                  cards |-> PileRemove(result.cards, args.card),
                  returned |-> Append(result.returned, remove_finds(result.cards, args.card)),
                  drawn |-> <<>>]
    /\ UNCHANGED <<args, notCall>>

\* pile.draw_n(n)
CallDrawN ==
    /\ args.fn = "draw_n"
    /\ call = "idle"
    /\ call' = "draw_n"
    /\ result' = [before |-> result.cards,
                  cards |-> draw_n(result.cards, args.n).rest,
                  returned |-> <<>>,
                  drawn |-> draw_n(result.cards, args.n).drawn]
    /\ UNCHANGED <<args, notCall>>

NextPile == CallRemove \/ CallDrawN

SpecPile == InitPile /\ [][NextPile]_vars

\* C17: UnorderedPile::remove(x) returns true iff the pile holds a copy of x;
\* then exactly one copy of x is gone, the size is one less and every other
\* card keeps its multiplicity; when it returns false the pile is unchanged.
\* With two copies of x it returns true, true, then false.
C17_RemoveOneCopy ==
    call = "remove" =>
        LET x == args.card
            ret == result.returned[Len(result.returned)]
        IN /\ ret <=> CountOf(result.before, x) >= 1
           /\ ret => /\ CountOf(result.cards, x) = CountOf(result.before, x) - 1
                     /\ Len(result.cards) = Len(result.before) - 1
                     /\ \A c \in Cards \ {x} :
                            CountOf(result.cards, c) = CountOf(result.before, c)
           /\ ~ret => result.cards = result.before
           /\ (CountOf(args.pile, x) = 2 /\ Len(result.returned) = 3) =>
                  result.returned = <<TRUE, TRUE, FALSE>>

\* a pile with two copies of the card among others, after three calls
C17_Witness ==
    /\ call = "remove" /\ CountOf(args.pile, args.card) = 2 /\ Len(args.pile) = 4
    /\ args.pile[1] = args.card /\ args.pile[4] # args.card
    /\ result.returned = <<TRUE, TRUE, FALSE>>

\* C18: draw_n(n) on a pile of size s returns min(n, s) cards, the top ones,
\* the former top first, and leaves the s - min(n, s) bottom cards in their
\* order; draw_n(s) empties the pile
C18_DrawN ==
    call = "draw_n" =>
        LET s == Len(result.before)
            k == Min(args.n, s)
        IN /\ Len(result.drawn) = k
           /\ \A i \in 1..k : result.drawn[i] = result.before[s - i + 1]
           /\ result.cards = SubSeq(result.before, 1, s - k)
           /\ args.n = s => result.cards = <<>>

\* two different cards drawn from a pile of four, two left
C18_Witness ==
    /\ call = "draw_n" /\ Len(result.before) = 4 /\ args.n = 2
    /\ result.drawn[1] # result.drawn[2]
    /\ result.drawn[1] = result.before[4]
    /\ Len(result.cards) = 2

(***************************************************************************)
(* Specification SpecDeck: DeckList::into_deck on every bounded deck list  *)
(***************************************************************************)
MaxAllocations == 2 \* most allocations of the decklist
MaxQuantity == 2    \* largest quantity of an allocation

\* the names a deck list may use: one of the registry and two it does not hold
DeckNames == {"Forest", "Fireball", "Nonexistent Card"}

\* CardCollection::card_named on the registry of the model
card_named(name) == IF name \in Cards THEN Some(name) ELSE None

DeckAllocation == [name : DeckNames, quantity : 0..MaxQuantity]

\* the loop of for_each_card: the consumer pushes the card quantity times, an
\* unknown name is counted and skipped
for_each_card_loop[deck_allocations \in Seq(DeckAllocation), num_missing \in Nat, pile \in Seq(Cards)] ==
    IF deck_allocations = <<>> THEN [num_missing |-> num_missing, pile |-> pile]
    ELSE LET da == deck_allocations[1]
         IN IF card_named(da.name) = None
            THEN for_each_card_loop[Tail(deck_allocations), num_missing + 1, pile]
            ELSE for_each_card_loop[Tail(deck_allocations), num_missing,
                                    pile \o Copies(Unwrap(card_named(da.name)),
                                                   da.quantity)]

\* for_each_card: Err(MissingCards) when a name was missing, with the pile the
\* consumer has filled
for_each_card(deck_allocations) ==
    LET done == for_each_card_loop[deck_allocations, 0, <<>>]
    IN [res |-> IF done.num_missing > 0
                THEN Err([MissingCards |-> done.num_missing]) ELSE Ok(<<>>),
        pile |-> done.pile]

\* DeckList::into_deck: the ? after the command zone returns its error at once
into_deck(list) ==
    LET command_zone == for_each_card(list.command_zone)
        deck == for_each_card(list.decklist)
    IN IF ~command_zone.res.ok THEN command_zone.res
       ELSE IF ~deck.res.ok THEN deck.res
       ELSE Ok([command_zone |-> command_zone.pile, deck |-> deck.pile])

InitDeck ==
    /\ PayIdle /\ TapIdle /\ JoinIdle /\ ReduceIdle /\ TrialIdle /\ TwinIdle /\ RegIdle
    /\ call = "idle"
    /\ args \in [command_zone : SeqsUpTo(DeckAllocation, 1),
                 decklist : SeqsUpTo(DeckAllocation, MaxAllocations)]
    /\ result = <<>>

\* decklist.into_deck(&collection)
CallIntoDeck ==
    /\ call = "idle"
    /\ call' = "into_deck"
    /\ result' = <<into_deck(args)>>
    /\ UNCHANGED <<args, notCall>>

NextDeck == CallIntoDeck

SpecDeck == InitDeck /\ [][NextDeck]_vars

\* the allocations of a list that name a card the registry does not hold
MissingIn(deck_allocations) ==
    Len(SelectSeq(deck_allocations, LAMBDA da : da.name \notin Cards))

RECURSIVE SumOfQuantities(_)
SumOfQuantities(deck_allocations) ==
    IF deck_allocations = <<>> THEN 0
    ELSE deck_allocations[1].quantity + SumOfQuantities(Tail(deck_allocations))

\* C19 as stated: into_deck returns MissingCards{num_missing} whenever an
\* allocation names a card absent from the registry, num_missing being the
\* number of such allocations of command_zone and decklist together;
\* otherwise it returns a deck whose main pile holds the sum of the decklist
\* quantities
C19_MissingCards ==
    call = "into_deck" =>
        LET missing == MissingIn(args.command_zone) + MissingIn(args.decklist)
        IN IF missing > 0
           THEN result[1] = Err([MissingCards |-> missing])
           ELSE /\ result[1].ok
                /\ Len(result[1].value.deck) = SumOfQuantities(args.decklist)

(***************************************************************************)
(* Specification SpecReg: the process-wide registry of lib.rs, with        *)
(* threads that call init and threads that look cards up, in any           *)
(* interleaving                                                            *)
(***************************************************************************)
MaxThreads == 2     \* the threads of the process

RegThreads == 1..MaxThreads

\* the collections a thread may hand to init: the Vec<CardData>, a card
\* standing for its data
RegCollections == {<<"Forest", "Bear">>, <<"Bear", "Growth", "Forest">>}

\* the handles and the names that are looked up
RegHandles == 0..3
RegNames == Cards \cup {"Nonexistent Card"}

\* CardCollection::create_name_lookup: the handle of a name is its index,
\* the last one where the name is inserted twice
create_name_lookup(card_collection) ==
    [name \in SeqToSet(card_collection) |->
        (CHOOSE i \in 1..Len(card_collection) :
            /\ card_collection[i] = name
            /\ \A j \in (i + 1)..Len(card_collection) : card_collection[j] # name) - 1]

\* faulty variant: a later set replaces the value of the cell
OnceCell_set_replaces(cell, value) == [cell |-> Some(value), res |-> "Ok"]

\* OnceCell::set: the value is stored only in an empty cell
OnceCell_set(cell, value) ==
    IF cell = None THEN [cell |-> Some(value), res |-> "Ok"]
    ELSE [cell |-> cell, res |-> "Err"]

\* get_card_data
get_card_data(cell, card) ==
    IF cell = None THEN None
    ELSE IF card < Len(Unwrap(cell)) THEN Some(Unwrap(cell)[card + 1]) ELSE None

\* get_card_named
get_card_named(cell, name) ==
    IF cell = None THEN Err("NameLookupUnintialized")
    ELSE IF name \in DOMAIN Unwrap(cell) THEN Ok(Unwrap(cell)[name])
    ELSE Err("CardNameNotPresent")

InitReg ==
    /\ PayIdle /\ TapIdle /\ JoinIdle /\ ReduceIdle /\ TrialIdle /\ CallIdle /\ TwinIdle
    /\ NAME_TO_CARD = None /\ CARD_COLLECTION = None
    /\ threads = [t \in RegThreads |-> [pc |-> "ready", card_collection |-> <<>>, returned |-> 0]]
    /\ observed = [published |-> None,
                   card_data |-> [card \in RegHandles |-> {}],
                   card_named |-> [name \in RegNames |-> {}]]

\* a thread calls init: lib.rs:21-22
InitBegin(t) ==
    /\ threads[t].pc = "ready"
    /\ \E card_collection \in RegCollections :
           threads' = [threads EXCEPT ![t].pc = "set_names",
                                      ![t].card_collection = card_collection]
    /\ UNCHANGED <<NAME_TO_CARD, CARD_COLLECTION, observed, notReg>>

\* lib.rs:24-25: NAME_TO_CARD.set(..).expect(..), a panic when the cell is set
SetNames(t) ==
    /\ threads[t].pc = "set_names"
    /\ LET outcome == OnceCell_set(NAME_TO_CARD,
                               create_name_lookup(threads[t].card_collection))
       IN /\ NAME_TO_CARD' = outcome.cell
          /\ threads' = [threads EXCEPT ![t].pc = IF outcome.res = "Ok" THEN "set_collection"
                                                  ELSE "panicked"]
    /\ UNCHANGED <<CARD_COLLECTION, observed, notReg>>

\* lib.rs:26-28: CARD_COLLECTION.set(..).expect(..), then init returns
SetCollection(t) ==
    /\ threads[t].pc = "set_collection"
    /\ LET outcome == OnceCell_set(CARD_COLLECTION, threads[t].card_collection)
       IN /\ CARD_COLLECTION' = outcome.cell
          /\ threads' = [threads EXCEPT
                            ![t].pc = IF outcome.res = "Ok" THEN "ready" ELSE "panicked",
                            ![t].returned = IF outcome.res = "Ok" THEN @ + 1 ELSE @]
          /\ observed' = IF outcome.res = "Ok" /\ observed.published = None
                         THEN [observed EXCEPT
                                   !.published = Some([names |-> NAME_TO_CARD,
                                                       collection |-> outcome.cell])]
                         ELSE observed
    /\ UNCHANGED <<NAME_TO_CARD, notReg>>

\* a thread looks the data of a handle up; what it gets is noted once an init
\* has returned
LookupData(t) ==
    /\ threads[t].pc = "ready"
    /\ observed.published # None
    /\ \E card \in RegHandles :
           observed' = [observed EXCEPT
                            !.card_data[card] = @ \cup {get_card_data(CARD_COLLECTION, card)}]
    /\ UNCHANGED <<NAME_TO_CARD, CARD_COLLECTION, threads, notReg>>

\* a thread looks the handle of a name up
LookupName(t) ==
    /\ threads[t].pc = "ready"
    /\ observed.published # None
    /\ \E name \in RegNames :
           observed' = [observed EXCEPT
                            !.card_named[name] = @ \cup {get_card_named(NAME_TO_CARD, name)}]
    /\ UNCHANGED <<NAME_TO_CARD, CARD_COLLECTION, threads, notReg>>

NextReg ==
    \E t \in RegThreads :
        InitBegin(t) \/ SetNames(t) \/ SetCollection(t) \/ LookupData(t) \/ LookupName(t)

SpecReg == InitReg /\ [][NextReg]_vars

\* the calls of init that have returned, over the threads up to t
InitsReturned[t \in 0..MaxThreads] ==
    IF t = 0 THEN 0 ELSE threads[t].returned + InitsReturned[t - 1]

\* C20: once an init has succeeded the published registry is never replaced
\* or altered, every later lookup by handle or by name returns the same
\* result whatever the threads do, and no other call of init succeeds
C20_WriteOnce ==
    observed.published # None =>
        /\ NAME_TO_CARD = Unwrap(observed.published).names
        /\ CARD_COLLECTION = Unwrap(observed.published).collection
        /\ \A card \in RegHandles :
               observed.card_data[card]
                   \subseteq {get_card_data(Unwrap(observed.published).collection, card)}
        /\ \A name \in RegNames :
               observed.card_named[name]
                   \subseteq {get_card_named(Unwrap(observed.published).names, name)}
        /\ InitsReturned[MaxThreads] = 1
        /\ \A t \in RegThreads : threads[t].pc # "set_collection"

\* one thread has published its collection, the init of another has failed,
\* and lookups by handle and by name were made afterwards
C20_Witness ==
    /\ observed.published # None
    /\ \E t \in RegThreads : threads[t].pc = "panicked"
    /\ \E card \in RegHandles : observed.card_data[card] # {}
    /\ \E name \in RegNames : observed.card_named[name] # {}

(***************************************************************************)
(* Specification SpecOf: the constructors of a pool of one type of mana    *)
(***************************************************************************)
OfAmount == 20      \* the largest amount handed to a constructor

\* ManaPool::white .. ManaPool::colorless: the named field is given, the rest
\* comes from Default
ManaPool_white(white) == [ManaPoolEmpty EXCEPT !.white = white]
ManaPool_blue(blue) == [ManaPoolEmpty EXCEPT !.blue = blue]
ManaPool_black(black) == [ManaPoolEmpty EXCEPT !.black = black]
ManaPool_red(red) == [ManaPoolEmpty EXCEPT !.red = red]
ManaPool_green(green) == [ManaPoolEmpty EXCEPT !.green = green]
ManaPool_colorless(green) == [ManaPoolEmpty EXCEPT !.green = green]

\* ManaPool::of
ManaPool_of(mana_type, amount) ==
    CASE mana_type = "White" -> ManaPool_white(amount)
      [] mana_type = "Blue" -> ManaPool_blue(amount)
      [] mana_type = "Black" -> ManaPool_black(amount)
      [] mana_type = "Red" -> ManaPool_red(amount)
      [] mana_type = "Green" -> ManaPool_green(amount)
      [] mana_type = "Colorless" -> ManaPool_colorless(amount)

InitOf ==
    /\ PayIdle /\ TapIdle /\ JoinIdle /\ ReduceIdle /\ TrialIdle /\ TwinIdle /\ RegIdle
    /\ call = "idle"
    /\ args \in [mana_type : ManaType, amount : 0..OfAmount]
    /\ result = <<>>

CallOf ==
    /\ call = "idle"
    /\ call' = "of"
    /\ result' = <<ManaPool_of(args.mana_type, args.amount)>>
    /\ UNCHANGED <<args, notCall>>

NextOf == CallOf

SpecOf == InitOf /\ [][NextOf]_vars

\* C21: ManaPool::of(t, n) is the pool whose component t is n and whose five
\* other components are 0
C21_PoolOf ==
    call = "of" =>
        \A t \in ManaType :
            Index(result[1], t) = IF t = args.mana_type THEN args.amount ELSE 0

(***************************************************************************)
(* Specification SpecMetrics: the recordings add_count and set made on one *)
(* MetricsData, in any order                                               *)
(***************************************************************************)
MaxCalls == 3       \* the recordings made on the MetricsData
MaxValue == 2       \* the largest value recorded

\* result.before and result.after are the MetricsData around the last call;
\* result.set_only[k] is the value of the first set of k while k was recorded
\* by set alone
InitMetrics ==
    /\ PayIdle /\ TapIdle /\ JoinIdle /\ ReduceIdle /\ TrialIdle /\ TwinIdle /\ RegIdle
    /\ call = "idle"
    /\ args = [key |-> "lands", value |-> 0]
    /\ result = [before |-> MetricsDataEmpty, after |-> MetricsDataEmpty, calls |-> 0,
                 set_only |-> [k \in Keys |-> None]]

CallAddCount ==
    /\ result.calls < MaxCalls
    /\ \E key \in Keys, count \in 0..MaxValue :
           /\ args' = [key |-> key, value |-> count]
           /\ result' = [before |-> result.after,
                         after |-> add_count(result.after, key, count),
                         calls |-> result.calls + 1,
                         set_only |-> [result.set_only EXCEPT ![key] = None]]
    /\ call' = "add_count"
    /\ UNCHANGED notCall

CallSet ==
    /\ result.calls < MaxCalls
    /\ \E key \in Keys, value \in 0..MaxValue :
           /\ args' = [key |-> key, value |-> value]
           /\ result' = [before |-> result.after,
                         after |-> set(result.after, key, value),
                         calls |-> result.calls + 1,
                         set_only |-> IF IsSome(result.after.metrics[key])
                                      THEN result.set_only
                                      ELSE [result.set_only EXCEPT ![key] = Some(value)]]
    /\ call' = "set"
    /\ UNCHANGED notCall

NextMetrics == CallAddCount \/ CallSet

SpecMetrics == InitMetrics /\ [][NextMetrics]_vars

\* C22: set writes only when the key is absent: on a key already recorded by
\* set or add_count it leaves the key's total, min, max, count and
\* trials_seen, and the rest of the metrics, unchanged; a key recorded by
\* set alone keeps the value of its first set
C22_SetIfAbsent ==
    /\ (call = "set" /\ IsSome(result.before.metrics[args.key])) =>
           /\ result.after.metrics[args.key] = result.before.metrics[args.key]
           /\ result.after = result.before
    /\ (call = "set" /\ ~IsSome(result.before.metrics[args.key])) =>
           /\ get(result.after, args.key) =
                  [total |-> args.value, min |-> args.value, max |-> args.value,
                   trials_seen |-> 1, count |-> 1]
           /\ \A k \in Keys \ {args.key} :
                  result.after.metrics[k] = result.before.metrics[k]
    /\ \A k \in Keys :
           IsSome(result.set_only[k]) => total(result.after, k) = Unwrap(result.set_only[k])

\* a key recorded by add_count and a key set to 1 were both set again, to 2
C22_Witness ==
    /\ call = "set"
    /\ args.value = 2
    /\ IsSome(result.before.metrics[args.key])
    /\ total(result.after, args.key) = 1
    /\ result.calls = MaxCalls

(***************************************************************************)
(* The opening hand and the mulligans (SpecTrial)                          *)
(***************************************************************************)
\* the cards of a zone as a bag
ZoneBag(cards) == [c \in SeqToSet(cards) |-> CountOf(cards, c)]

\* C23: when opening_hand is emitted the hand holds exactly
\* min(7 - mulligans taken, main deck size) cards and the library the rest of
\* the main deck, for every strategy and from 0 to 6 mulligans
C23_OpeningHandSize ==
    (pc = "loop" /\ events = <<"opening_hand">>) =>
        /\ state.num_mulligans_taken \in 0..6
        /\ Len(state.hand) = Min(HAND_SIZE - state.num_mulligans_taken, main_size)
        /\ Len(state.library) = main_size - Len(state.hand)
        /\ \E lands \in 0..main_size :
               ZoneBag(state.library \o state.hand)
                   = ZoneBag(Copies("Forest", lands) \o Copies("Growth", main_size - lands))

\* opening_hand was emitted after six mulligans of a deck of more than seven
\* cards
C23_Witness ==
    /\ pc = "loop" /\ events = <<"opening_hand">>
    /\ state.num_mulligans_taken = 6
    /\ main_size > HAND_SIZE
    /\ Len(state.hand) = 1

\* one iteration of the mulligan loop
MulliganStep ==
    pc = "mulligan" /\ state'.num_mulligans_taken = state.num_mulligans_taken + 1

\* C24 as stated: the hand redrawn after a mulligan has as many cards as the
\* hand it replaced, the deck holding at least that many cards.
C24_HandKeptAsStated ==
    [][(MulliganStep /\ main_size >= Len(state.hand))
           => Len(state'.hand) = Len(state.hand)]_vars

\* C24: the hand redrawn after the k-th mulligan has min(7 - k, main deck
\* size) cards: one card fewer than the hand it replaced when the deck holds
\* at least as many cards as a full hand of the mulligan before, as many
\* otherwise
C24_HandShrinks ==
    [][MulliganStep =>
           /\ Len(state'.hand) = Min(HAND_SIZE - state'.num_mulligans_taken, main_size)
           /\ main_size >= HAND_SIZE - state.num_mulligans_taken
                  => Len(state'.hand) = Len(state.hand) - 1
           /\ main_size < HAND_SIZE - state.num_mulligans_taken
                  => Len(state'.hand) = Len(state.hand)
           /\ Len(state'.library) + Len(state'.hand) = main_size]_vars

\* a hand of five cards was drawn after the second mulligan of a deck of at
\* least seven cards
C24_Witness ==
    /\ pc = "mulligan"
    /\ state.num_mulligans_taken = 2
    /\ main_size >= HAND_SIZE
    /\ Len(state.hand) = 5

(***************************************************************************)
(* Specification SpecPlayCard: State::play_card applied to every bounded state *)
(* and every play of a card that is in the zone it is played from          *)
(***************************************************************************)
PlayCards == 3      \* most cards in hand, command zone, graveyard and battlefield together

\* the zones remove_from_zone takes a card from
PlayZones == Zones \ {"Library"}

\* the pile of a zone
ZoneOf(st, zone) ==
    CASE zone = "CommandZone" -> st.command_zone
      [] zone = "Hand" -> st.hand
      [] zone = "Graveyard" -> st.graveyard
      [] zone = "Battlefield" -> st.permanents

\* the zone play_card puts a card of this type into
Destination(card) ==
    IF CardData[card].card_type \in {"Instant", "Sorcery"} THEN "Graveyard" ELSE "Battlefield"

\* a state with these piles, the fields play_card leaves alone being set
PlayState(command_zone, hand, permanents, graveyard, land_drops_made, tapped) ==
    [library |-> <<"Growth", "Forest">>, command_zone |-> command_zone,
     hand |-> hand, permanents |-> permanents, graveyard |-> graveyard,
     turn |-> 2, draw_on_first_turn |-> TRUE, num_mulligans_taken |-> 1,
     game_loss |-> FALSE, max_land_drops_per_turn |-> 1,
     turn_state |-> [land_drops_made |-> land_drops_made, tapped |-> tapped]]

InitPlayCard ==
    /\ PayIdle /\ TapIdle /\ JoinIdle /\ ReduceIdle /\ TrialIdle /\ TwinIdle /\ RegIdle
    /\ call = "idle"
    /\ \E c \in 0..1 :
       \E h \in 0..(PlayCards - c) :
       \E p \in 0..(PlayCards - c - h) :
       \E g \in 0..(PlayCards - c - h - p) :
       \E command_zone \in [1..c -> Cards], hand \in [1..h -> Cards],
          permanents \in [1..p -> Cards], graveyard \in [1..g -> Cards],
          land_drops_made \in 0..1, tapped \in {<<>>, <<"Forest">>},
          card \in Cards, zone \in PlayZones :
           /\ args = [st |-> PlayState(command_zone, hand, permanents, graveyard,
                                       land_drops_made, tapped),
                      card |-> card, zone |-> zone]
           /\ CountOf(ZoneOf(args.st, zone), card) > 0
    /\ result = <<>>

CallPlayCard ==
    /\ call = "idle"
    /\ call' = "play_card"
    /\ result' = <<play_card(args.st, CardPlay(args.card, args.zone, ManaPoolEmpty))>>
    /\ UNCHANGED <<args, notCall>>

NextPlayCard == CallPlayCard

SpecPlayCard == InitPlayCard /\ [][NextPlayCard]_vars

\* how many copies of the card the zone holds after one copy left the zone
\* `from` and one copy entered the zone `to`
CopiesAfterMove(st, zone, card, moved, from, to) ==
    CountOf(ZoneOf(st, zone), card)
        - (IF zone = from /\ card = moved THEN 1 ELSE 0)
        + (IF zone = to /\ card = moved THEN 1 ELSE 0)

\* C25: play_card of a card present in its zone removes exactly one copy
\* from that zone and adds exactly one copy to the graveyard for an instant
\* or sorcery and to the permanents otherwise; land_drops_made grows by one
\* if and only if the card is a land; the library, the turn, the mulligans
\* taken, game_loss and every other card in every zone are unchanged
C25_PlayCardFrame ==
    call = "play_card" =>
        LET before == args.st
            after == result[1]
        IN /\ \A zone \in PlayZones, card \in Cards :
                  CountOf(ZoneOf(after, zone), card)
                      = CopiesAfterMove(before, zone, card, args.card, args.zone,
                                        Destination(args.card))
           /\ after.turn_state.land_drops_made
                  = before.turn_state.land_drops_made
                      + (IF CardData[args.card].card_type = "Land" THEN 1 ELSE 0)
           /\ after.turn_state.tapped = before.turn_state.tapped
           /\ after.library = before.library
           /\ after.turn = before.turn
           /\ after.num_mulligans_taken = before.num_mulligans_taken
           /\ after.game_loss = before.game_loss
           /\ after.draw_on_first_turn = before.draw_on_first_turn
           /\ after.max_land_drops_per_turn = before.max_land_drops_per_turn

\* a land was played from a hand that holds two copies of it and another
\* card, with a permanent on the battlefield
C25_Witness ==
    /\ call = "play_card"
    /\ args.card = "Forest" /\ args.zone = "Hand"
    /\ CountOf(args.st.hand, "Forest") = 2
    /\ Len(args.st.permanents) = 1
    /\ CountOf(result[1].hand, "Forest") = 1

(***************************************************************************)
(* strategies/card_play_strategies.rs: play_a_land_and_a_card and          *)
(* play_a_card; specification SpecPlan applies them to every bounded state *)
(* and utility function                                                    *)
(***************************************************************************)
PlanHand == 3       \* most cards in the hand of a state handed to the strategy
PlanLands == 1      \* most lands on its battlefield
MaxUtility == 1     \* largest value of an enumerated utility function

\* faulty variant: the cards of the hand are not filtered by their type
legal_land_drops_of_any_type(st) ==
    LET firstOfName(i) == \A j \in 1..(i - 1) : st.hand[j] # st.hand[i]
        kept == SelectSeq([i \in 1..Len(st.hand) |-> i], firstOfName)
    IN [k \in 1..Len(kept) |-> CardPlay(st.hand[kept[k]], "Hand", ManaPoolEmpty)]

\* State::legal_land_drops: the lands of the hand in its order, one per name
legal_land_drops(st) ==
    LET firstLand(i) == /\ CardData[st.hand[i]].card_type = "Land"
                        /\ \A j \in 1..(i - 1) : st.hand[j] # st.hand[i]
        kept == SelectSeq([i \in 1..Len(st.hand) |-> i], firstLand)
    IN [k \in 1..Len(kept) |-> CardPlay(st.hand[kept[k]], "Hand", ManaPoolEmpty)]

\* State::with_having_played, the lookahead state play_a_land_and_a_card
\* asks for: a copy of the state in which the card has been played
with_having_played(st, card_play) == play_card(st, card_play)

\* play_a_card
play_a_card(st, utility_fn) ==
    naive_greedy[<<>>, available_mana_pool(st), legal_card_plays(st), utility_fn]

\* the sum of the utilities of the cards of a plan
RECURSIVE SumOfUtilities(_, _)
SumOfUtilities(card_plays, utility_fn) ==
    IF card_plays = <<>> THEN 0
    ELSE utility_fn[card_plays[1].card] + SumOfUtilities(Tail(card_plays), utility_fn)

\* Soln::replace_if_better
replace_if_better(self, other) == IF other.utility > self.utility THEN other ELSE self

\* the plan play_a_land_and_a_card builds for one land drop
PlanFor(st, land_drop, utility_fn) ==
    LET card_plays == <<land_drop>> \o play_a_card(with_having_played(st, land_drop), utility_fn)
    IN [card_plays |-> card_plays, utility |-> SumOfUtilities(card_plays, utility_fn)]

\* the for_each of play_a_land_and_a_card over the land drops left
RECURSIVE for_each_land_drop(_, _, _, _)
for_each_land_drop(st, land_drops, utility_fn, soln) ==
    IF land_drops = <<>> THEN soln
    ELSE for_each_land_drop(st, Tail(land_drops), utility_fn,
                            replace_if_better(soln, PlanFor(st, land_drops[1], utility_fn)))

\* play_a_land_and_a_card
play_a_land_and_a_card(st, utility_fn) ==
    for_each_land_drop(st, legal_land_drops(st), utility_fn,
                       [card_plays |-> <<>>, utility |-> 0]).card_plays

\* the utility functions handed to the strategy
PlanUtilities == [Cards -> 0..MaxUtility] \cup {[card \in Cards |-> Utility(card)]}

InitPlan ==
    /\ PayIdle /\ TapIdle /\ JoinIdle /\ ReduceIdle /\ TrialIdle /\ TwinIdle /\ RegIdle
    /\ call = "idle"
    /\ \E hand \in SeqsUpTo(Cards, PlanHand),
          permanents \in SeqsUpTo({"Forest"}, PlanLands),
          command_zone \in {<<>>, <<"Bear">>},
          utility_fn \in PlanUtilities :
           args = [st |-> PlayState(command_zone, hand, permanents, <<>>, 0, <<>>),
                   utility_fn |-> utility_fn]
    /\ result = <<>>

CallPlayALandAndACard ==
    /\ call = "idle"
    /\ call' = "play_a_land_and_a_card"
    /\ result' = <<play_a_land_and_a_card(args.st, args.utility_fn)>>
    /\ UNCHANGED <<args, notCall>>

NextPlan == CallPlayALandAndACard

SpecPlan == InitPlan /\ [][NextPlan]_vars

\* the candidate plans, one per legal land drop, in the order enumerated
CandidatePlans ==
    LET land_drops == legal_land_drops(args.st)
    IN [i \in 1..Len(land_drops) |-> PlanFor(args.st, land_drops[i], args.utility_fn)]

\* the plan is the first of the candidates whose utility is maximal
FirstOfMaximalUtility(plan) ==
    \E i \in 1..Len(CandidatePlans) :
        /\ plan = CandidatePlans[i].card_plays
        /\ \A j \in 1..Len(CandidatePlans) :
               CandidatePlans[j].utility <= CandidatePlans[i].utility
        /\ \A j \in 1..(i - 1) : CandidatePlans[j].utility < CandidatePlans[i].utility

\* C26: play_a_land_and_a_card returns, among the candidate plans built one
\* per legal land drop, a plan of maximal utility, the first one enumerated
\* among those
C26_BestPlan ==
    (call = "play_a_land_and_a_card" /\ CandidatePlans # <<>>)
        => FirstOfMaximalUtility(result[1])

\* C30: when the hand holds no land play_a_land_and_a_card returns the empty
\* plan, whatever mana sources are on the battlefield; every non-empty plan
\* it returns begins with exactly one land drop taken from the hand
C30_LandFirst ==
    call = "play_a_land_and_a_card" =>
        LET plan == result[1]
        IN /\ num_lands_in_hand(args.st) = 0 => plan = <<>>
           /\ plan # <<>> =>
                  /\ CardData[plan[1].card].card_type = "Land"
                  /\ plan[1].zone = "Hand"
                  /\ CountOf(args.st.hand, plan[1].card) > 0
                  /\ \A i \in 2..Len(plan) : CardData[plan[i].card].card_type # "Land"

\* the empty plan was returned for a hand without a land that holds an
\* instant the land on the battlefield could pay for
C30_Witness ==
    /\ call = "play_a_land_and_a_card"
    /\ num_lands_in_hand(args.st) = 0
    /\ CountOf(args.st.hand, "Growth") > 0
    /\ args.st.permanents = <<"Forest">>
    /\ play_a_card(args.st, args.utility_fn) # <<>>
    /\ result[1] = <<>>

(***************************************************************************)
(* Specification SpecGreedy: the loop of naive_greedy, iteration by        *)
(* iteration, on every bounded list of candidates and pool of mana         *)
(***************************************************************************)
GreedyMana == 3     \* largest mana value of the available mana
GreedyPlays == 3    \* longest list of candidates

\* the utility closures handed to naive_greedy: the one of StrategyImpl, one
\* that prefers the cheaper card, and one that ranks all cards alike
GreedyUtilities ==
    {[card \in Cards |-> Utility(card)],
     [card \in Cards |-> IF card = "Growth" THEN 2 ELSE IF card = "Bear" THEN 1 ELSE 0],
     [card \in Cards |-> 1]}

\* the candidates: what legal_card_plays yields, and a land
GreedyCandidates ==
    {CardPlay(card, "Hand", ManaPoolEmpty) : card \in {"Forest", "Growth", "Bear"}}
        \cup {CardPlay("Bear", "CommandZone", ManaPoolEmpty)}

\* the pools of green and red mana handed to naive_greedy
GreedyPools ==
    {p \in {[ManaPoolEmpty EXCEPT !.green = g, !.red = r] :
                g \in 0..GreedyMana, r \in 0..GreedyMana} : mana_value(p) <= GreedyMana}

\* result holds the locals of the loop, and in considered, for every iteration
\* made, the candidate popped, the mana available then and whether the
\* candidate was committed
InitGreedy ==
    /\ PayIdle /\ TapIdle /\ JoinIdle /\ ReduceIdle /\ TrialIdle /\ TwinIdle /\ RegIdle
    /\ call = "naive_greedy"
    /\ args \in [plays : {<<>>, <<CardPlay("Forest", "Hand", ManaPoolEmpty)>>},
                 available_mana : GreedyPools,
                 legal_plays : SeqsUpTo(GreedyCandidates, GreedyPlays),
                 utility_fn : GreedyUtilities]
    /\ result = [plays |-> args.plays, available_mana |-> args.available_mana,
                 legal_plays |-> args.legal_plays, considered |-> <<>>]

\* card_play_strategies.rs:79-109: one iteration of the loop
GreedyIteration ==
    /\ call = "naive_greedy"
    /\ result.legal_plays # <<>>
    /\ LET next == naive_greedy_iteration(result.plays, result.available_mana,
                                          result.legal_plays, args.utility_fn)
           popped == CHOOSE cp \in SeqToSet(result.legal_plays) :
                         CountOf(result.legal_plays, cp) > CountOf(next.legal_plays, cp)
       IN result' = [plays |-> next.plays, available_mana |-> next.available_mana,
                     legal_plays |-> next.legal_plays,
                     considered |-> Append(result.considered,
                                           [card_play |-> popped,
                                            available_mana |-> result.available_mana,
                                            committed |-> next.plays # result.plays])]
    /\ UNCHANGED <<call, args, notCall>>

\* card_play_strategies.rs:84-87: the pop finds no candidate, the loop is left
GreedyReturn ==
    /\ call = "naive_greedy"
    /\ result.legal_plays = <<>>
    /\ call' = "returned"
    /\ UNCHANGED <<args, result, notCall>>

NextGreedy == GreedyIteration \/ GreedyReturn

SpecGreedy == InitGreedy /\ [][NextGreedy]_vars

\* the plays committed by the call so far
Committed == SubSeq(result.plays, Len(args.plays) + 1, Len(result.plays))

\* the componentwise sum of the payments of plays
RECURSIVE SumOfPayments(_)
SumOfPayments(card_plays) ==
    IF card_plays = <<>> THEN ManaPoolEmpty
    ELSE PoolAdd(card_plays[1].payment, SumOfPayments(Tail(card_plays)))

\* how often a candidate, a card in a zone, occurs among plays
CandidateCount(card_plays, card, zone) ==
    Len(SelectSeq(card_plays, LAMBDA cp : cp.card = card /\ cp.zone = zone))

\* C27: for the plays committed by one call of naive_greedy, each payment P
\* covers the coloured part of the cost of its card componentwise and has the
\* mana value of that cost, no candidate is committed more than once, and the
\* componentwise sum of the payments is at most the available mana the call
\* started with
C27_GreedyPayments ==
    call \in {"naive_greedy", "returned"} =>
        /\ SubSeq(result.plays, 1, Len(args.plays)) = args.plays
        /\ \A i \in 1..Len(Committed) :
               /\ IsSome(CardData[Committed[i].card].cost)
               /\ PoolLeq(Unwrap(CardData[Committed[i].card].cost).colors,
                          Committed[i].payment)
               /\ mana_value(Committed[i].payment)
                      = cost_mana_value(Unwrap(CardData[Committed[i].card].cost))
        /\ \A cp \in GreedyCandidates :
               CandidateCount(Committed, cp.card, cp.zone)
                   <= CandidateCount(args.legal_plays, cp.card, cp.zone)
        /\ PoolLeq(SumOfPayments(Committed), args.available_mana)
        /\ PoolAdd(SumOfPayments(Committed), result.available_mana) = args.available_mana
        /\ call = "returned" =>
               result.plays = naive_greedy[args.plays, args.available_mana,
                                           args.legal_plays, args.utility_fn]

\* the call returned two committed plays, one of them paid with red mana for
\* its generic part, out of three candidates
C27_Witness ==
    /\ call = "returned"
    /\ Len(args.legal_plays) = 3
    /\ Len(Committed) = 2
    /\ \E i \in 1..2 : Committed[i].payment.red = 1

\* C28: naive_greedy considers the candidates in non-increasing utility
\* order, each exactly once, commits a candidate if and only if its cost is
\* payable from the mana remaining at that moment, and when it returns no
\* uncommitted candidate that has a cost is payable from the mana that remains
C28_GreedyOrder ==
    call \in {"naive_greedy", "returned"} =>
        LET considered == result.considered
            u(i) == args.utility_fn[considered[i].card_play.card]
            cost_of(card) == CardData[card].cost
        IN /\ \A i, j \in 1..Len(considered) : i < j => u(i) >= u(j)
           /\ \A cp \in GreedyCandidates :
                  Len(SelectSeq(considered, LAMBDA e : e.card_play = cp))
                          + CountOf(result.legal_plays, cp)
                      = CountOf(args.legal_plays, cp)
           /\ \A i \in 1..Len(considered) :
                  considered[i].committed
                      <=> /\ IsSome(cost_of(considered[i].card_play.card))
                          /\ AdmitsPayment(considered[i].available_mana,
                                           Unwrap(cost_of(considered[i].card_play.card)))
           /\ Len(SelectSeq(considered, LAMBDA e : e.committed)) = Len(Committed)
           /\ call = "returned" =>
                  /\ Len(considered) = Len(args.legal_plays)
                  /\ \A cp \in GreedyCandidates :
                         (/\ CandidateCount(Committed, cp.card, cp.zone)
                                 < CandidateCount(args.legal_plays, cp.card, cp.zone)
                          /\ IsSome(cost_of(cp.card)))
                             => ~AdmitsPayment(result.available_mana, Unwrap(cost_of(cp.card)))

\* the call returned after it committed the candidate of greatest utility,
\* skipped one it could no longer pay for and one without a cost
C28_Witness ==
    /\ call = "returned"
    /\ Len(result.considered) = 3
    /\ result.considered[1].committed
    /\ \E i \in 2..3 : /\ ~result.considered[i].committed
                       /\ IsSome(CardData[result.considered[i].card_play.card].cost)
                       /\ AdmitsPayment(args.available_mana,
                                        Unwrap(CardData[result.considered[i].card_play.card].cost))
    /\ \E i \in 2..3 : ~IsSome(CardData[result.considered[i].card_play.card].cost)

(***************************************************************************)
(* game/annotations.rs; specification SpecAnnotations inserts annotations  *)
(* into an AnnotationSet in any order                                      *)
(***************************************************************************)
AnnValueCount == 3  \* the distinct annotation values
MaxValues == 2      \* longest value list of an inserted annotation

\* the annotation keys inserted
AnnotationKeys == {"core:Produces", "payoff"}

\* the annotation values, each named by its rank in the derived Ord
AnnotationValues == 1..AnnValueCount

\* Vec::sort of a value list
RECURSIVE Vec_sort(_)
Vec_sort(values) ==
    IF values = <<>> THEN <<>>
    ELSE LET least == CHOOSE i \in 1..Len(values) :
                          \A j \in 1..Len(values) : values[i] <= values[j]
         IN <<values[least]>> \o Vec_sort(Without(values, least))

\* Vec::dedup: of consecutive equal values the first is kept
RECURSIVE Vec_dedup(_)
Vec_dedup(values) ==
    IF Len(values) <= 1 THEN values
    ELSE IF values[1] = values[2] THEN Vec_dedup(Tail(values))
    ELSE <<values[1]>> \o Vec_dedup(Tail(values))

\* Annotation::extend
Annotation_extend(self, values) == [self EXCEPT !.values = Vec_dedup(Vec_sort(@ \o values))]

\* AnnotationSet::get_mut: the position of the first annotation with the key,
\* 0 for None
get_mut(annotations, key) ==
    IF \E i \in 1..Len(annotations) : annotations[i].key = key
    THEN CHOOSE i \in 1..Len(annotations) :
             /\ annotations[i].key = key
             /\ \A j \in 1..(i - 1) : annotations[j].key # key
    ELSE 0

\* AnnotationSet::insert
AnnotationSet_insert(annotations, annotation) ==
    LET entry == get_mut(annotations, annotation.key)
    IN IF entry = 0 THEN Append(annotations, annotation)
       ELSE [annotations EXCEPT ![entry] = Annotation_extend(@, annotation.values)]

\* result.annotations is the AnnotationSet; result.first_seen lists the keys
\* in the order of their first insertion and result.inserted[k] is the set of
\* the values inserted under k
InitAnnotations ==
    /\ PayIdle /\ TapIdle /\ JoinIdle /\ ReduceIdle /\ TrialIdle /\ TwinIdle /\ RegIdle
    /\ call = "idle"
    /\ args = [key |-> "payoff", values |-> <<>>]
    /\ result = [annotations |-> <<>>, first_seen |-> <<>>,
                 inserted |-> [k \in AnnotationKeys |-> {}]]

\* AnnotationSet::insert, also as the body of the loop of AnnotationSet::from
CallInsert ==
    /\ \E key \in AnnotationKeys, values \in SeqsUpTo(AnnotationValues, MaxValues) :
           /\ args' = [key |-> key, values |-> values]
           /\ result' = [annotations |-> AnnotationSet_insert(result.annotations, args'),
                         first_seen |-> IF key \in SeqToSet(result.first_seen)
                                        THEN result.first_seen
                                        ELSE Append(result.first_seen, key),
                         inserted |-> [result.inserted EXCEPT
                                           ![key] = @ \cup SeqToSet(values)]]
    /\ call' = "insert"
    /\ UNCHANGED notCall

NextAnnotations == CallInsert

SpecAnnotations == InitAnnotations /\ [][NextAnnotations]_vars

\* C29: after any sequence of inserts each key occurs in exactly one
\* annotation, the annotations are ordered by the first insertion of their
\* key, and the value list of each annotation is the duplicate-free union of
\* the value lists inserted under its key
C29_AnnotationSet ==
    /\ [i \in 1..Len(result.annotations) |-> result.annotations[i].key] = result.first_seen
    /\ NoDuplicates(result.first_seen)
    /\ \A i \in 1..Len(result.annotations) :
           /\ SeqToSet(result.annotations[i].values)
                  = result.inserted[result.annotations[i].key]
           /\ NoDuplicates(result.annotations[i].values)

====
